---- MODULE Spec2Model ----
(***************************************************************************)
(* Round orchestration of the congress simulator.                          *)
(*                                                                         *)
(* Three orchestrators are modelled, selected by `variant`:                *)
(*   "client"   runSimulationClient of lib/simulation.ts with parallel     *)
(*              per-member voting (src/unnamed/part_005)                   *)
(*   "frontend" runSimulationClient of src/frontend/src/lib/simulation.ts  *)
(*              (one inference call per chunk of ten members)              *)
(*   "engine"   runSimulation of simulation/engine.ts                      *)
(*              (src/unnamed/part_002)                                     *)
(*                                                                         *)
(* A member is identified by the integer i of its id M-000i.  Ideology is  *)
(* drawn from the small set Ideologies.  The inference backend is the      *)
(* environment: each call returns one of a few classes of reply, or        *)
(* throws.                                                                 *)
(***************************************************************************)
EXTENDS Integers, Sequences, FiniteSets, TLC

\* Largest population size explored.
MaxMembers == 3

\* Largest population size explored in runs of more than one round.
MaxMultiRoundMembers == 1

\* Largest configured round budget explored.
MaxRounds == 3

\* Largest population size explored when a run is repeated.
RerunMaxMembers == 2

\* Largest round budget with which a run is explored without restriction.
\* A run with a larger budget is explored for a population of at most
\* MaxMultiRoundMembers members of an ideology in MultiRoundIdeologies and a
\* backend that answers YES or NO (or throws) and names sampled members only.
MaxUnrestrictedRounds == 1

\* District leans and ideology noise explored.
Leans == {0, 1}
Noises == {0, 1}

\* An ideology left as drawn.
Unclamped(x) == x

\* Math.max(-1, Math.min(1, ideology))
Clamp(x) == IF x > 1 THEN 1 ELSE IF x < -1 THEN -1 ELSE x

\* Ideology values a sampled member may get: lean plus noise, clamped.
Ideologies == {Clamp(l + e) : l \in Leans, e \in Noises}

\* Ideology values sampled in runs of more than MaxUnrestrictedRounds rounds.
MultiRoundIdeologies == {1}

\* Model ids an engine can be loaded with.
Models == {"m1"}

None == "none"

VARIABLES
    variant,        \* which orchestrator is running
    pc,             \* position of the run
    loadedEngine,   \* module-level engine cache: the model it was loaded with
    currentModelId, \* module-level id of the loaded model
    loadingModel,   \* model being loaded by engine.reload, None otherwise
    districts,      \* number of districts supplied
    numMembers,     \* opts.numMembers
    rounds,         \* opts.rounds
    useLlm,         \* opts.useLlm
    parallelLimit,  \* opts.parallelLimit (0: not given)
    members,        \* sequence of sampled members
    r,              \* loop counter of the round loop
    speakers,       \* spokespeople of the current round, in speaking order
    speeches,       \* speeches of the current round
    votes,          \* roll call being built by the voting phase
    voteIdx,        \* loop counter i of the voting loop
    allRounds,      \* recorded rounds
    currentBill,    \* the bill as amended so far
    llmModel,       \* llm_model argument of the engine orchestrator
    result,         \* returned SimResult, None before the run returns
    seed,           \* seed of the request: <<s>>, or <<>> when absent
    prior,          \* <<what an earlier run with the same inputs produced>>
    inFlight,       \* members whose voting call is pending
    settled,        \* votes of the settled calls of the current chunk
    rng,            \* the Random object: <<its seed field>>, <<>> before construction
    rngCall,        \* <<record of the last call made on the Random object>>
    rngArg,         \* <<seed argument of new Random() in runSimulation>>, <<>> before the call
    events,         \* observer notifications made by the run, in order
    picked,         \* <<a call of pickSpokespeople and its outcome>>, <<>> before the call
    fill,           \* <<indices in chosen>> while the fill loop of pickSpokespeople runs
    reconciled,     \* <<backend votes, speeches and tally of one consistency override>>
    runs            \* two overlapping runs of runSimulationClient on the shared engine cache

vars == <<variant, pc, loadedEngine, currentModelId, loadingModel, districts,
          numMembers, rounds, useLlm, parallelLimit, members, r, speakers,
          speeches, votes, voteIdx, allRounds, currentBill, llmModel, result,
          seed, prior, inFlight, settled,
          rng,
          rngCall,
          rngArg,
          events,
          picked,
          fill,
          reconciled,
          runs>>

----------------------------------------------------------------------------
\* Pure helpers

Max(a, b) == IF a >= b THEN a ELSE b
Min(a, b) == IF a <= b THEN a ELSE b

\* Ideologies sampled in a run with round budget rd.
IdeologiesFor(rd) ==
    IF rd <= MaxUnrestrictedRounds THEN Ideologies ELSE MultiRoundIdeologies

\* Stance -> Vote mapping used by the consistency override.
ForcedVote(stance) ==
    IF stance = "support" THEN "yes"
    ELSE IF stance = "oppose" THEN "no"
    ELSE "abstain"

\* Insert m into the sorted sequence s after every element that is not
\* greater (Array.prototype.sort is stable).
RECURSIVE InsertSorted(_, _)
InsertSorted(s, m) ==
    IF s = <<>> THEN <<m>>
    ELSE IF Head(s).ideology <= m.ideology
         THEN <<Head(s)>> \o InsertSorted(Tail(s), m)
         ELSE <<m>> \o s

\* [...ms].sort((a, b) => a.ideology - b.ideology)
RECURSIVE SortByIdeology(_)
SortByIdeology(ms) ==
    IF ms = <<>> THEN <<>>
    ELSE InsertSorted(SortByIdeology(SubSeq(ms, 1, Len(ms) - 1)), ms[Len(ms)])

\* The five speakers of the client orchestrators: positions 0, 25%, 50%,
\* 75% and last of the ideology-sorted population (0-based in the code).
ClientSpeakers(ms) ==
    LET sorted == SortByIdeology(ms)
        n == Len(sorted)
    IN  <<sorted[1],
          sorted[(n \div 4) + 1],
          sorted[(n \div 2) + 1],
          sorted[((3 * n) \div 4) + 1],
          sorted[n]>>

\* Number of entries of roll call f with value v.
CountVotes(f, v) == Cardinality({k \in DOMAIN f : f[k] = v})

\* passed as the client orchestrators compute it: yes > (yes + no) * 0.5
ClientPassed(yes, no) == 2 * yes > yes + no

\* A final flag read from the first recorded round instead of the last.
FinalPassedOfFirst(rs) == IF Len(rs) > 0 THEN rs[1].vote.passed ELSE FALSE

\* Final result flag: allRounds[allRounds.length - 1]?.vote.passed || false
FinalPassed(rs) == IF Len(rs) > 0 THEN rs[Len(rs)].vote.passed ELSE FALSE

\* The bill handed to the run.  The summary is the sequence of the pieces
\* it is made of: the original text, then every appended amendment.
\* text_content is <<>> for a bill without extended text.
BaseBill == [title |-> "title", summary |-> <<"summary">>, text_content |-> <<>>]

\* A summary longer than the context the spokespeople are shown.
LongSummary == "long summary"

\* The bills a run is started with.
Bills ==
    {[BaseBill EXCEPT !.summary = <<sm>>, !.text_content = tc] :
        sm \in {"summary", LongSummary}, tc \in {<<>>, <<"text_content">>}}

\* Pass threshold 0.5 as a fraction.
Threshold == [num |-> 1, den |-> 2]

\* A reply of the inference backend to a YES/NO prompt, by what the parsing
\* looks for: whether the lower-cased text contains a yes-word and whether
\* it contains a no-word.
ThoughtReplies == [yes : BOOLEAN, no : BOOLEAN]

\* The reply classes explored in a run with round budget rd.
RepliesFor(rd) ==
    IF rd <= MaxUnrestrictedRounds THEN ThoughtReplies
    ELSE {t \in ThoughtReplies : t.yes \/ t.no}

\* Stance parsed from the spokesperson's decision reply.
StanceOfReply(t) ==
    IF t.yes THEN "support" ELSE IF t.no THEN "oppose" ELSE "amend"

\* Vote parsed from a member's reply in the parallel batchVote.
VoteOfReply(t) ==
    IF t.yes THEN "yes" ELSE IF t.no THEN "no" ELSE "abstain"

\* Replies of the amendment call: message content, "" when empty.
AmendReplies == {"cap spending"}

GenericAmendment == "Add a budgetary oversight committee to monitor spending."

\* reply.choices[0].message.content || <generic text>
AmendTextOf(content) == IF content = "" THEN GenericAmendment ELSE content

\* Values of opts.parallelLimit explored (0: not given).
ParallelLimits == {0, 2}

\* A batchVote that always runs five calls at a time.
DefaultLimit(pl) == 5

\* opts.parallelLimit || 5
EffectiveLimit(pl) == IF pl = 0 THEN 5 ELSE pl

\* An override that writes the forced vote and leaves the counters alone.
ReconcileOneUncounted(st, s) ==
    [st EXCEPT !.votes = [k \in DOMAIN st.votes \cup {s.member_id} |->
                            IF k = s.member_id THEN ForcedVote(s.stance)
                            ELSE st.votes[k]]]

\* One override step of the consistency loop: st is [votes, yes, no, abs].
ReconcileOne(st, s) ==
    LET currentVote == IF s.member_id \in DOMAIN st.votes
                       THEN st.votes[s.member_id] ELSE None
        forcedVote == ForcedVote(s.stance)
        dec == [yes |-> st.yes - (IF currentVote = "yes" THEN 1 ELSE 0),
                no  |-> st.no  - (IF currentVote = "no" THEN 1 ELSE 0),
                abs |-> st.abs - (IF currentVote \notin {"yes", "no"} THEN 1 ELSE 0)]
    IN  IF currentVote # forcedVote
        THEN [votes |-> [k \in DOMAIN st.votes \cup {s.member_id} |->
                            IF k = s.member_id THEN forcedVote ELSE st.votes[k]],
              yes |-> dec.yes + (IF forcedVote = "yes" THEN 1 ELSE 0),
              no  |-> dec.no  + (IF forcedVote = "no" THEN 1 ELSE 0),
              abs |-> dec.abs + (IF forcedVote = "abstain" THEN 1 ELSE 0)]
        ELSE st

\* for (const s of speeches) { ... } of the consistency override.
RECURSIVE Reconcile(_, _)
Reconcile(st, ss) ==
    IF ss = <<>> THEN st ELSE Reconcile(ReconcileOne(st, Head(ss)), Tail(ss))

\* The tally of an inference-mode round of the client orchestrators.
ClientLlmVote(vs, ss) ==
    LET counted == [votes |-> vs,
                    yes |-> CountVotes(vs, "yes"),
                    no  |-> CountVotes(vs, "no"),
                    abs |-> Cardinality(DOMAIN vs) - CountVotes(vs, "yes")
                                                   - CountVotes(vs, "no")]
        st == Reconcile(counted, ss)
    IN  [yes |-> st.yes, no |-> st.no, abstain |-> st.abs,
         passed |-> ClientPassed(st.yes, st.no),
         threshold |-> Threshold, rollCall |-> st.votes]

\* A stub tally that counts the odd member as a yes.
ClientStubVoteHalfUp(n) ==
    [yes |-> n - n \div 2, no |-> n \div 2, abstain |-> 0,
     passed |-> ClientPassed(n - n \div 2, n \div 2),
     threshold |-> Threshold, rollCall |-> <<>>]

\* The tally of a round of the client orchestrators without inference.
ClientStubVote(n) ==
    [yes |-> n \div 2, no |-> n \div 2, abstain |-> 0, passed |-> FALSE,
     threshold |-> Threshold, rollCall |-> <<>>]

----------------------------------------------------------------------------
\* State

IsClient == variant \in {"client", "frontend"}

\* useLlm && loadedEngine
LlmMode == useLlm /\ loadedEngine # None

\* The state before a run is started with the bill.
InitFor(bill) ==
    /\ variant = None
    /\ pc = "idle"
    /\ loadedEngine \in Models \cup {None}
    /\ currentModelId = loadedEngine
    /\ loadingModel = None
    /\ districts = 0
    /\ numMembers = 0
    /\ rounds = 0
    /\ useLlm = FALSE
    /\ parallelLimit = 0
    /\ members = <<>>
    /\ r = 0
    /\ speakers = <<>>
    /\ speeches = <<>>
    /\ votes = <<>>
    /\ voteIdx = 0
    /\ allRounds = <<>>
    /\ currentBill = bill
    /\ llmModel = None
    /\ result = None
    /\ seed = <<>>
    /\ prior = <<>>
    /\ inFlight = {}
    /\ settled = <<>>
    /\ rng = <<>>
    /\ rngCall = <<>>
    /\ rngArg = <<>>
    /\ events = <<>>
    /\ picked = <<>>
    /\ fill = <<>>
    /\ reconciled = <<>>
    /\ runs = [i \in {1, 2} |-> [pc |-> "idle", model |-> None, engine |-> None, calls |-> 0, sentTo |-> {}]]

Init == InitFor(BaseBill)

\* An uncaught exception: the promise of the run rejects and its locals are
\* gone; the rounds already handed to onRoundComplete stay observed.
Throw ==
    /\ pc' = "aborted"
    /\ speakers' = <<>>
    /\ speeches' = <<>>
    /\ votes' = <<>>
    /\ voteIdx' = 0

\* The run returns: { members, rounds: allRounds, final_passed, notes }.
\* ms is the member list (client orchestrators) or numMembers (runSimulation).
Return(ms, rs) ==
    /\ pc' = "done"
    /\ result' = [members |-> ms, rounds |-> rs, final_passed |-> FinalPassed(rs)]

\* A loop that runs once more than the budget: r <= rounds
InLoopInclusive(rr) == rr <= rounds

\* Condition of the round loop: for (let r = 0; r < rounds; r++)
InLoop(rr) == rr < rounds

\* Top of the round loop of the client orchestrators with loop counter rr,
\* population ms and recorded rounds rs: leave the loop, or select the
\* speakers of round rr.  With an empty population the first speaker is
\* undefined and reading its member_id throws.
ClientLoopTop(rr, ms, rs) ==
    /\ r' = rr
    /\ speeches' = <<>>
    /\ votes' = <<>>
    /\ voteIdx' = 0
    /\ IF InLoop(rr)
       THEN IF Len(ms) = 0
            THEN pc' = "aborted" /\ speakers' = <<>> /\ result' = result
            ELSE pc' = "speak" /\ speakers' = ClientSpeakers(ms) /\ result' = result
       ELSE speakers' = <<>> /\ Return(ms, rs)

\* opts.parallelLimit is read only where batchVote is called with it: by the
\* "client" orchestrator in a run that has an engine.  It is kept in the
\* state only for such runs.
ReadsLimit(v, llm, cfg) ==
    v = "client" /\ llm /\ (cfg # None \/ loadedEngine # None)

\* runSimulationClient is called with opts.parallelLimit in limits (and a
\* population of at most multi members when the round budget exceeds
\* MaxUnrestrictedRounds): the
\* engine is (re)loaded when inference is requested with a config and no
\* engine of that model is cached.
StartClientFrom(limits, multi) ==
    /\ pc = "idle"
    /\ \E v \in {"client", "frontend"}, n \in 0..MaxMembers, rd \in 0..MaxRounds,
          llm \in BOOLEAN, cfg \in Models \cup {None}, nd \in 0..1,
          pl \in limits :
        /\ rd > MaxUnrestrictedRounds => n <= multi
        /\ variant' = v
        /\ numMembers' = n
        /\ rounds' = rd
        /\ useLlm' = llm
        /\ districts' = nd
        /\ seed' = <<>>
        /\ parallelLimit' = IF ReadsLimit(v, llm, cfg) THEN pl ELSE 0
        /\ IF llm /\ cfg # None /\ (loadedEngine = None \/ currentModelId # cfg)
           THEN pc' = "loading" /\ loadingModel' = cfg
           ELSE pc' = "sample" /\ loadingModel' = None
    /\ UNCHANGED <<runs, reconciled, fill, picked, events, rngArg, rngCall, rng, prior, inFlight, settled, llmModel, loadedEngine, currentModelId, members, r, speakers, speeches,
                   votes, voteIdx, allRounds, currentBill, result>>

\* runSimulationClient is called with one of the batch sizes ParallelLimits.
StartClient ==
    /\ pc = "idle"
    /\ StartClientFrom(ParallelLimits, MaxMultiRoundMembers)

\* await engine.reload(model) resolves.
LoadEngine ==
    /\ pc = "loading"
    /\ loadedEngine' = loadingModel
    /\ currentModelId' = loadingModel
    /\ loadingModel' = None
    /\ pc' = "sample"
    /\ UNCHANGED <<runs, reconciled, fill, picked, events, rngArg, rngCall, rng, seed, prior, inFlight, settled, variant, llmModel, districts, numMembers, rounds, useLlm, parallelLimit,
                   members, r, speakers, speeches, votes, voteIdx, allRounds,
                   currentBill, result>>

\* await engine.reload(model) rejects: the run is aborted.
LoadEngineFails ==
    /\ pc = "loading"
    /\ loadingModel' = None
    /\ pc' = "aborted"
    /\ UNCHANGED <<runs, reconciled, fill, picked, events, rngArg, rngCall, rng, seed, prior, inFlight, settled, variant, llmModel, loadedEngine, currentModelId, districts, numMembers,
                   rounds, useLlm, parallelLimit, members, r, speakers, speeches,
                   votes, voteIdx, allRounds, currentBill, result>>

\* A run that goes on without looking at the district list.
NoDistrictsUnchecked(nd) == FALSE

\* if (!districtSummary.sample?.length) / if (districts.length === 0)
NoDistricts(nd) == nd = 0

\* districts[i % districts.length] for the i-th member (1-based here) of the
\* client sampler; undefined for an empty list.
DistrictOf(i, nd) == IF nd = 0 THEN None ELSE (i - 1) % nd

\* Members numbered from M-0000.
SampledMembersFromZero(n, ideo, dist) ==
    [i \in 1..n |-> [member_id |-> i - 1, ideology |-> ideo[i], district |-> dist[i]]]

\* The members sampleMembers returns: the i-th pushed member has id M-000i,
\* the drawn ideology ideo[i] and the district (by index) dist[i].
SampledMembers(n, ideo, dist) ==
    [i \in 1..n |-> [member_id |-> i, ideology |-> ideo[i], district |-> dist[i]]]

\* "No districts" check, sampleMembers, and entry into the round loop.
ClientSample ==
    /\ pc = "sample"
    /\ IsClient
    /\ IF NoDistricts(districts)
       THEN /\ pc' = "aborted"
            /\ UNCHANGED <<runs, reconciled, fill, picked, events, rngArg, rngCall, rng, members, r, speakers, speeches, votes, voteIdx, result>>
       ELSE \E ideo \in [1..numMembers -> IdeologiesFor(rounds)] :
            /\ members' = SampledMembers(numMembers, ideo,
                                          [i \in 1..numMembers |-> DistrictOf(i, districts)])
            /\ ClientLoopTop(0, members', <<>>)
    /\ UNCHANGED <<runs, reconciled, fill, picked, events, rngArg, rngCall, rng, seed, prior, inFlight, settled, variant, llmModel, loadedEngine, currentModelId, loadingModel, districts,
                   numMembers, rounds, useLlm, parallelLimit, allRounds, currentBill>>

\* Stances the heuristic of a client orchestrator can give member s when
\* inference is off.  "client": Math.random() < (ideology + 1) / 2 with
\* Math.random() in [0, 1).  "frontend": ideology > 0.
HeuristicStances(v, s) ==
    IF v = "client"
    THEN {"support" : x \in {1} \ {IF s.ideology > -1 THEN 0 ELSE 1}}
         \cup {"oppose" : x \in {1} \ {IF s.ideology < 1 THEN 0 ELSE 1}}
    ELSE {IF s.ideology > 0 THEN "support" ELSE "oppose"}

\* A round record numbered from one.
RoundObjOneBased(idx, ss, v) ==
    [round_index |-> idx + 1, speeches |-> ss, vote |-> v, amendment |-> None]

\* Round record pushed to allRounds.
RoundObj(idx, ss, v) ==
    [round_index |-> idx, speeches |-> ss, vote |-> v, amendment |-> None]

\* An amendment branch taken after the last allowed round as well.
RoundsRemainInclusive(rr) == rr < rounds

\* The loop continues after a failed round that is not the last one.
RoundsRemain(rr) == rr < rounds - 1

\* A decision step without the break on a passed vote.
NeverStopsOnPass(voteRes) == FALSE

\* A decision step whose break condition is inverted.
StopsOnFail(voteRes) == ~voteRes.passed

\* The round is stopped by a passed vote: if (voteRes.passed) break
StopsOnPass(voteRes) == voteRes.passed

\* An observer that is never called.
NotifyNothing(ev, kind, rr) == ev

\* if (onX) onX(...): the notification of the given kind made during round
\* rr ("speech": onSpeech, "vote": onVoteUpdate, "round": onRoundComplete) is
\* added to the notifications ev made so far.
Notify(ev, kind, rr) == Append(ev, [kind |-> kind, round |-> rr])

\* if (onRoundComplete) onRoundComplete(roundObj): the observer is handed
\* the round record as it is at the call.
HandRound(ev, roundObj) ==
    Append(ev, [kind |-> "round", round |-> roundObj.round_index,
                record |-> roundObj])

\* onVoteUpdate calls of round rr when a chunk of the parallel batchVote has
\* been tallied: one after the chunk; after the last chunk also the final
\* update of batchVote and the update after the consistency override.
VoteUpdates(ev, rr, last) ==
    IF last
    THEN Notify(Notify(Notify(ev, "vote", rr), "vote", rr), "vote", rr)
    ELSE Notify(ev, "vote", rr)

\* From the tally to the next await of a client orchestrator: push the
\* round with speeches ss and tally voteRes, call onRoundComplete (ev: the
\* notifications made before it), then return on passed, await
\* the amendment call, or go to the top of the loop.
RecordRound(ss, voteRes, ev) ==
    LET rs == Append(allRounds, RoundObj(r, ss, voteRes))
    IN  /\ allRounds' = rs
        /\ events' = HandRound(ev, RoundObj(r, ss, voteRes))
        /\ IF StopsOnPass(voteRes)
           THEN /\ Return(members, rs)
                /\ speeches' = ss
                /\ votes' = <<>>
                /\ voteIdx' = 0
                /\ UNCHANGED <<runs, reconciled, fill, picked, rngArg, rngCall, rng, r, speakers>>
           ELSE IF RoundsRemain(r) /\ LlmMode
           THEN /\ pc' = "amend"
                /\ speeches' = ss
                /\ votes' = <<>>
                /\ voteIdx' = 0
                /\ UNCHANGED <<runs, reconciled, fill, picked, rngArg, rngCall, rng, r, speakers, result>>
           ELSE ClientLoopTop(r + 1, members, rs)

\* One iteration of the speech loop of a client orchestrator: the stance is
\* parsed from the decision reply (inference) or drawn by the heuristic, the
\* speech is pushed.  After the last speech an inference-mode round
\* dispatches the voting calls; without inference the fixed tally is built
\* and the round recorded in the same synchronous step.
ClientSpeak ==
    /\ pc = "speak"
    /\ IsClient
    /\ LET s == speakers[Len(speeches) + 1]
           stances == IF LlmMode
                      THEN {StanceOfReply(t) : t \in RepliesFor(rounds)}
                      ELSE HeuristicStances(variant, s)
       IN  \E st \in stances :
             LET ss == Append(speeches, [member_id |-> s.member_id, stance |-> st])
             IN  IF Len(ss) < Len(speakers)
                 THEN /\ speeches' = ss
                      /\ events' = Notify(events, "speech", r)
                      /\ UNCHANGED <<runs, reconciled, fill, picked, rngArg, rngCall, rng, pc, r, speakers, votes, voteIdx, allRounds, result>>
                 ELSE IF LlmMode
                 THEN /\ speeches' = ss
                      /\ events' = Notify(events, "speech", r)
                      /\ pc' = "vote"
                      /\ UNCHANGED <<runs, reconciled, fill, picked, rngArg, rngCall, rng, r, speakers, votes, voteIdx, allRounds, result>>
                 ELSE RecordRound(ss, ClientStubVote(numMembers),
                                  Notify(events, "speech", r))
    /\ UNCHANGED <<runs, reconciled, fill, picked, rngArg, rngCall, rng, seed, prior, inFlight, settled, variant, llmModel, loadedEngine, currentModelId, loadingModel, districts,
                   numMembers, rounds, useLlm, parallelLimit, members, currentBill>>

\* An inference call of the speech loop (decision or speech text) throws:
\* nothing catches it and the run is aborted.
ClientSpeakThrows ==
    /\ pc = "speak"
    /\ IsClient
    /\ LlmMode
    /\ Throw
    /\ UNCHANGED <<runs, reconciled, fill, picked, events, rngArg, rngCall, rng, seed, prior, inFlight, settled, variant, llmModel, loadedEngine, currentModelId, loadingModel, districts,
                   numMembers, rounds, useLlm, parallelLimit, members, r,
                   allRounds, currentBill, result>>

\* Votes a member's call of the parallel batchVote can resolve to: the parsed
\* reply, or abstain when the call throws.
MemberVotes == {VoteOfReply(t) : t \in RepliesFor(rounds)} \cup {"abstain"}

\* The calls of one chunk of the parallel batchVote have all settled: their
\* results are written to the roll call.  After the last chunk batchVote
\* returns and the orchestrator counts, overrides the speakers' votes,
\* builds the tally and records the round.
BatchVoteChunk ==
    /\ pc = "vote"
    /\ variant = "client"
    /\ LET limit == EffectiveLimit(parallelLimit)
           chunk == {members[k].member_id :
                        k \in (voteIdx + 1)..Min(voteIdx + limit, Len(members))}
       IN  \E res \in [chunk -> MemberVotes] :
             LET results == [k \in DOMAIN votes \cup chunk |->
                                IF k \in chunk THEN res[k] ELSE votes[k]]
             IN  IF voteIdx + limit < Len(members)
                 THEN /\ votes' = results
                      /\ voteIdx' = voteIdx + limit
                      /\ events' = VoteUpdates(events, r, FALSE)
                      /\ UNCHANGED <<runs, reconciled, fill, picked, rngArg, rngCall, rng, pc, r, speakers, speeches, allRounds, result>>
                 ELSE RecordRound(speeches, ClientLlmVote(results, speeches),
                                  VoteUpdates(events, r, TRUE))
    /\ UNCHANGED <<runs, reconciled, fill, picked, rngArg, rngCall, rng, seed, prior, inFlight, settled, variant, llmModel, loadedEngine, currentModelId, loadingModel, districts,
                   numMembers, rounds, useLlm, parallelLimit, members, currentBill>>

\* Size of a chunk of the frontend batchVote.
BATCH_SIZE == 10

\* An id the backend may name in its reply that belongs to no sampled member.
ForeignId == 0

\* Votes the ideology fallback of the frontend batchVote can give member m:
\* Math.random() < (ideology + 1) / 2 ? "yes" : "no"
FallbackVotes(m) ==
    {"yes" : x \in {1} \ {IF m.ideology > -1 THEN 0 ELSE 1}}
    \cup {"no" : x \in {1} \ {IF m.ideology < 1 THEN 0 ELSE 1}}

\* One chunk of the frontend batchVote.  The reply is what the regular
\* expression extracts from it: for each id it names, the last YES/NO given
\* (None: the id is not named).  Every named id is written to the roll
\* call; chunk members still without an entry get the ideology fallback.
\* When the call throws every chunk member is set to abstain.  After the
\* last chunk batchVote returns and the round is tallied and recorded.
FrontendVoteChunk ==
    /\ pc = "vote"
    /\ variant = "frontend"
    /\ LET chunkIdx == (voteIdx + 1)..Min(voteIdx + BATCH_SIZE, Len(members))
           chunk == {members[k].member_id : k \in chunkIdx}
           named == {members[k].member_id : k \in 1..Len(members)}
                    \cup (IF rounds <= MaxUnrestrictedRounds THEN {ForeignId} ELSE {})
           finish(results) ==
               IF voteIdx + BATCH_SIZE < Len(members)
               THEN /\ votes' = results
                    /\ voteIdx' = voteIdx + BATCH_SIZE
                    /\ UNCHANGED <<runs, reconciled, fill, picked, events, rngArg, rngCall, rng, pc, r, speakers, speeches, allRounds, result>>
               ELSE RecordRound(speeches, ClientLlmVote(results, speeches), events)
       IN  \/ \E reply \in [named -> {None, "yes", "no"}] :
              LET matched == [k \in DOMAIN votes \cup {i \in named : reply[i] # None} |->
                                 IF k \in named /\ reply[k] # None
                                 THEN reply[k] ELSE votes[k]]
                  missing == chunk \ DOMAIN matched
              IN  \E fb \in [missing -> {"yes", "no"}] :
                    /\ \A k \in chunkIdx :
                          members[k].member_id \in missing
                            => fb[members[k].member_id] \in FallbackVotes(members[k])
                    /\ finish([k \in DOMAIN matched \cup missing |->
                                  IF k \in missing THEN fb[k] ELSE matched[k]])
           \/ finish([k \in DOMAIN votes \cup chunk |->
                         IF k \in chunk THEN "abstain" ELSE votes[k]])
    /\ UNCHANGED <<runs, reconciled, fill, picked, rngArg, rngCall, rng, seed, prior, inFlight, settled, variant, llmModel, loadedEngine, currentModelId, loadingModel, districts,
                   numMembers, rounds, useLlm, parallelLimit, members, currentBill>>

\* An amendment tagged with the 0-based round index.
AppendAmendmentZeroBased(bill, rr, text) ==
    [bill EXCEPT !.summary = Append(@, [round |-> rr, text |-> text])]

\* currentBill.summary += "\n\nAMENDMENT (Round r+1): " + amendText
AppendAmendment(bill, rr, text) ==
    [bill EXCEPT !.summary = Append(@, [round |-> rr + 1, text |-> text])]

\* await generateAmendment(...) resolves: the text is appended to the bill
\* summary and set on the round just recorded; the loop goes on.
ClientAmend ==
    /\ pc = "amend"
    /\ IsClient
    /\ \E content \in AmendReplies :
         LET amendText == AmendTextOf(content)
             rs == [allRounds EXCEPT ![Len(allRounds)].amendment = amendText]
         IN  /\ currentBill' = AppendAmendment(currentBill, r, amendText)
             /\ allRounds' = rs
             /\ ClientLoopTop(r + 1, members, rs)
    /\ UNCHANGED <<runs, reconciled, fill, picked, events, rngArg, rngCall, rng, seed, prior, inFlight, settled, variant, llmModel, loadedEngine, currentModelId, loadingModel, districts,
                   numMembers, rounds, useLlm, parallelLimit, members>>

\* await generateAmendment(...) rejects: nothing catches it.
ClientAmendThrows ==
    /\ pc = "amend"
    /\ IsClient
    /\ Throw
    /\ UNCHANGED <<runs, reconciled, fill, picked, events, rngArg, rngCall, rng, seed, prior, inFlight, settled, variant, llmModel, loadedEngine, currentModelId, loadingModel, districts,
                   numMembers, rounds, useLlm, parallelLimit, members, r,
                   allRounds, currentBill, result>>

----------------------------------------------------------------------------
\* The engine orchestrator: simulate -> runSimulation

\* Values of llm_model explored: one the decision backend has a transport
\* for (it starts with "llama") and one it has none for.
LlmModels == {"llama3", "gpt"}

\* llmModel.includes("local") || llmModel.startsWith("llama")
ModelSupported(m) == m = "llama3"

\* The promise of decideVote rejects.
Rejected == "rejected"

\* Rationales decideVote gives when it falls back to abstain.
FailureRationales == {"Error in decision process.", "Failed to parse reasoning."}

\* Vote fields of a reply that parses as JSON with a string vote, lower-cased
\* ("maybe" stands for any string other than the three tokens).
ParsedVotes(rd) ==
    IF rd <= MaxUnrestrictedRounds THEN {"yes", "no", "abstain", "maybe"}
    ELSE {"yes", "no", "abstain"}

\* decideVote with the catch of the decision process left out: an
\* unsupported model or a failed transport rejects the promise.
DecideOutcomesUncaught(llm, model, rd) ==
    IF ~llm
    THEN {[cause |-> "heuristic", vote |-> v,
           rationale |-> "LLM disabled; random heuristic vote."] : v \in {"yes", "no"}}
    ELSE IF ~ModelSupported(model)
    THEN {[cause |-> "unsupported", vote |-> Rejected, rationale |-> None]}
    ELSE {[cause |-> "transport", vote |-> Rejected, rationale |-> None],
          [cause |-> "unparseable", vote |-> "abstain",
           rationale |-> "Failed to parse reasoning."]}
         \cup {[cause |-> "parsed", vote |-> v, rationale |-> "json.rationale"] :
                  v \in ParsedVotes(rd)}

\* What decideVote resolves to, with the cause.  Without inference:
\* roll > 0.5 ? "yes" : "no".  With inference: the model has no transport
\* ("unsupported") or the fetch fails ("transport"), both caught by the outer
\* catch; the reply is not JSON with a string vote ("unparseable"), caught by
\* the inner catch; or the reply parses and its lower-cased vote field is
\* returned as it is ("parsed").
DecideOutcomes(llm, model, rd) ==
    IF ~llm
    THEN {[cause |-> "heuristic", vote |-> v,
           rationale |-> "LLM disabled; random heuristic vote."] : v \in {"yes", "no"}}
    ELSE IF ~ModelSupported(model)
    THEN {[cause |-> "unsupported", vote |-> "abstain",
           rationale |-> "Error in decision process."]}
    ELSE {[cause |-> "transport", vote |-> "abstain",
           rationale |-> "Error in decision process."],
          [cause |-> "unparseable", vote |-> "abstain",
           rationale |-> "Failed to parse reasoning."]}
         \cup {[cause |-> "parsed", vote |-> v, rationale |-> "json.rationale"] :
                  v \in ParsedVotes(rd)}

\* The vote field decideVote can resolve to.
DecideVote(llm, model, rd) == {o.vote : o \in DecideOutcomes(llm, model, rd)}

\* Stance runSimulation derives from a decision.
StanceOfDecision(v) ==
    IF v = "yes" THEN "support" ELSE IF v = "no" THEN "oppose" ELSE "amend"

\* pickSpokespeople(members, k) for a population of at most k members: all
\* of them, sorted by ideology.
PickSpokespeople(ms, k) == SortByIdeology(ms)

\* Number of spokespeople runSimulation asks for.
SpokesK == 7

\* passed as asyncVote computes it: (yes / Math.max(1, yes + no)) >= threshold
EnginePassed(yes, no) == yes * Threshold.den >= Max(1, yes + no) * Threshold.num

\* What runSimulation does after recording a round: both branches break.
EngineContinues(passed) == FALSE

ZeroCount == [yes |-> 0, no |-> 0, abstain |-> 0]

\* asyncVote has decided every member with counters c: the tally is built,
\* the round pushed, and the loop left or continued.
EngineRecord(ss, c, ms, rs0) ==
    LET voteResult == [yes |-> c.yes, no |-> c.no, abstain |-> c.abstain,
                       passed |-> EnginePassed(c.yes, c.no),
                       threshold |-> Threshold]
        rs == Append(rs0, [round_index |-> r', speeches |-> ss, vote |-> voteResult])
    IN  /\ allRounds' = rs
        /\ IF EngineContinues(voteResult.passed)
           THEN FALSE
           ELSE /\ Return(numMembers, rs)
                /\ speeches' = ss
                /\ votes' = c
                /\ voteIdx' = Len(ms)

\* Top of the round loop of runSimulation with loop counter rr.
EngineLoopTop(rr, ms, rs) ==
    /\ r' = rr
    /\ IF InLoop(rr)
       THEN /\ speakers' = PickSpokespeople(ms, SpokesK)
            /\ IF Len(ms) = 0
               THEN EngineRecord(<<>>, ZeroCount, ms, rs)
               ELSE /\ pc' = "speak"
                    /\ speeches' = <<>>
                    /\ votes' = ZeroCount
                    /\ voteIdx' = 0
                    /\ allRounds' = rs
                    /\ result' = result
       ELSE /\ speakers' = <<>>
            /\ speeches' = <<>>
            /\ votes' = ZeroCount
            /\ voteIdx' = 0
            /\ allRounds' = rs
            /\ Return(numMembers, rs)

\* Values of req.seed explored (<<>>: absent or null).
Seeds == {<<>>, <<0>>, <<1>>}

\* req.seed || null, then new Random(seed): <<>> stands for the time-derived
\* seed of the constructor.
EffectiveSeed(sd) == IF sd # <<>> /\ sd[1] = 0 THEN <<>> ELSE sd

\* Ideology the seeded generator gives the i-th sampled member: one fixed
\* value for each seed and position.
SeededIdeology(sd, i) == (sd[1] + i) % 2

\* Ideology vectors sampleMembers of the engine can produce for n members.
EngineIdeologies(sd, n, rd) ==
    IF EffectiveSeed(sd) = <<>>
    THEN [1..n -> IdeologiesFor(rd)]
    ELSE {[i \in 1..n |-> SeededIdeology(EffectiveSeed(sd), i)]}

\* simulate(req) is called with the active districts.
StartEngine ==
    /\ pc = "idle"
    /\ \E n \in 0..MaxMembers, rd \in 0..MaxRounds, llm \in BOOLEAN,
          m \in LlmModels, nd \in 0..1, sd \in Seeds :
        /\ rd > MaxUnrestrictedRounds => n <= MaxMultiRoundMembers
        /\ variant' = "engine"
        /\ numMembers' = n
        /\ rounds' = rd
        /\ useLlm' = llm
        /\ llmModel' = m
        /\ districts' = nd
        /\ seed' = sd
    /\ pc' = "sample"
    /\ UNCHANGED <<runs, reconciled, fill, picked, events, rngArg, rngCall, rng, prior, inFlight, settled, loadedEngine, currentModelId, loadingModel, parallelLimit,
                   members, r, speakers, speeches, votes, voteIdx, allRounds,
                   currentBill, result>>

\* new Random(seed), the empty-district check, sampleMembers, and entry into
\* the round loop.
EngineSample ==
    /\ pc = "sample"
    /\ variant = "engine"
    /\ rngArg' = <<EffectiveSeed(seed)>>
    /\ IF NoDistricts(districts)
       THEN /\ pc' = "aborted"
            /\ UNCHANGED <<runs, reconciled, fill, picked, events, rngCall, rng, members, r, speakers, speeches, votes, voteIdx,
                           allRounds, result>>
       ELSE \E ideo \in EngineIdeologies(seed, numMembers, rounds),
               dist \in [1..numMembers -> 0..(districts - 1)] :
            /\ members' = SampledMembers(numMembers, ideo, dist)
            /\ EngineLoopTop(0, members', <<>>)
    /\ UNCHANGED <<runs, reconciled, fill, picked, events, rngCall, rng, seed, prior, inFlight, settled, variant, llmModel, loadedEngine, currentModelId, loadingModel,
                   districts, numMembers, rounds, useLlm, parallelLimit, currentBill>>

\* One iteration of the speech loop of runSimulation: decideVote, the stance
\* derived from it, generateSpeech, push.  After the last speech asyncVote
\* is entered.  Nothing in runSimulation catches a rejected decision.
EngineSpeak ==
    /\ pc = "speak"
    /\ variant = "engine"
    /\ LET s == speakers[Len(speeches) + 1]
       IN  \E v \in DecideVote(useLlm, llmModel, rounds) :
             IF v = Rejected
             THEN Throw
             ELSE /\ speeches' = Append(speeches, [member_id |-> s.member_id,
                                                    stance |-> StanceOfDecision(v)])
                  /\ pc' = IF Len(speeches') < Len(speakers) THEN "speak" ELSE "vote"
                  /\ UNCHANGED <<runs, reconciled, fill, picked, events, rngArg, rngCall, rng, speakers, votes, voteIdx>>
    /\ UNCHANGED <<runs, reconciled, fill, picked, events, rngArg, rngCall, rng, seed, prior, inFlight, settled, variant, llmModel, loadedEngine, currentModelId, loadingModel,
                   districts, numMembers, rounds, useLlm, parallelLimit, members,
                   r, allRounds, currentBill, result>>

\* One iteration of asyncVote: decideVote for the next member and the
\* counter it increments.  After the last member asyncVote returns and the
\* round is recorded.
AsyncVote ==
    /\ pc = "vote"
    /\ variant = "engine"
    /\ \E v \in DecideVote(useLlm, llmModel, rounds) :
         LET c == [yes |-> votes.yes + (IF v = "yes" THEN 1 ELSE 0),
                   no |-> votes.no + (IF v = "no" THEN 1 ELSE 0),
                   abstain |-> votes.abstain + (IF v \notin {"yes", "no"} THEN 1 ELSE 0)]
         IN  IF v = Rejected
             THEN Throw /\ UNCHANGED <<runs, reconciled, fill, picked, events, rngArg, rngCall, rng, r, allRounds, result>>
             ELSE IF voteIdx + 1 < Len(members)
             THEN /\ votes' = c
                  /\ voteIdx' = voteIdx + 1
                  /\ UNCHANGED <<runs, reconciled, fill, picked, events, rngArg, rngCall, rng, pc, r, speakers, speeches, allRounds, result>>
             ELSE /\ r' = r
                  /\ speakers' = speakers
                  /\ EngineRecord(speeches, c, members, allRounds)
    /\ UNCHANGED <<runs, reconciled, fill, picked, events, rngArg, rngCall, rng, seed, prior, inFlight, settled, variant, llmModel, loadedEngine, currentModelId, loadingModel,
                   districts, numMembers, rounds, useLlm, parallelLimit, members,
                   currentBill>>

----------------------------------------------------------------------------

Next ==
    \/ StartClient
    \/ LoadEngine
    \/ LoadEngineFails
    \/ ClientSample
    \/ ClientSpeak
    \/ ClientSpeakThrows
    \/ BatchVoteChunk
    \/ FrontendVoteChunk
    \/ ClientAmend
    \/ ClientAmendThrows
    \/ StartEngine
    \/ EngineSample
    \/ EngineSpeak
    \/ AsyncVote

Spec == Init /\ [][Next]_vars

----------------------------------------------------------------------------
\* Repeated runs without inference

\* runSimulationClient is called without inference.
StartClientHeuristic ==
    /\ StartClient
    /\ ~useLlm'
    /\ numMembers' <= RerunMaxMembers

\* simulate(req) is called without inference.
StartEngineHeuristic ==
    /\ StartEngine
    /\ ~useLlm'
    /\ numMembers' <= RerunMaxMembers

\* The caller keeps what the completed run produced and calls the
\* orchestrator again with the same seed, districts, bill and configuration.
Rerun ==
    /\ pc = "done"
    /\ prior = <<>>
    /\ prior' = <<[members |-> members, result |-> result]>>
    /\ pc' = "sample"
    /\ members' = <<>>
    /\ r' = 0
    /\ speakers' = <<>>
    /\ speeches' = <<>>
    /\ votes' = <<>>
    /\ voteIdx' = 0
    /\ allRounds' = <<>>
    /\ currentBill' = BaseBill
    /\ result' = None
    /\ events' = <<>>
    /\ UNCHANGED <<runs, reconciled, fill, picked, rngArg, rngCall, rng, variant, loadedEngine, currentModelId, loadingModel, districts,
                   numMembers, rounds, useLlm, parallelLimit, llmModel, seed,
                   inFlight, settled>>

NextRerun ==
    \/ StartClientHeuristic
    \/ StartEngineHeuristic
    \/ ClientSample
    \/ ClientSpeak
    \/ EngineSample
    \/ EngineSpeak
    \/ AsyncVote
    \/ Rerun

SpecRerun == Init /\ [][NextRerun]_vars

----------------------------------------------------------------------------
\* The parallel batchVote, call by call

\* runSimulationClient of lib/simulation.ts is called with inference and an
\* engine (cached, or to be loaded): the runs that reach batchVote.
StartClientParallel ==
    /\ StartClient
    /\ variant' = "client"
    /\ useLlm'
    /\ loadedEngine # None \/ loadingModel' # None

\* An index argument of Array.prototype.slice made relative to an array of
\* len elements: a negative index counts from the end.
SliceIndex(i, len) == IF i < 0 THEN Max(len + i, 0) ELSE Min(i, len)

\* Loop counter of the chunk loop after i += PARALLEL_LIMIT.  Every negative
\* counter behaves alike (with a negative limit the slice is empty and the
\* loop condition i < members.length holds): -1 stands for all of them.
NextIndex(i, limit) == IF i + limit < 0 THEN -1 ELSE i + limit

\* members.slice(i, i + PARALLEL_LIMIT): the members whose promises the
\* current iteration of the chunk loop has created.
VoteChunk ==
    {members[k].member_id :
        k \in (SliceIndex(voteIdx, Len(members)) + 1)
                ..SliceIndex(voteIdx + EffectiveLimit(parallelLimit), Len(members))}

\* A chunk whose settled members wait for a timer again.
WaitingAgain == VoteChunk \ inFlight

\* Chunk members whose timer (idx * 50 ms) has not fired yet.
Waiting == VoteChunk \ (inFlight \cup DOMAIN settled)

\* The timer of the next chunk member fires (timers expire in idx order) and
\* its promise calls engine.chat.completions.create.
DispatchCall ==
    /\ pc = "vote"
    /\ variant = "client"
    /\ Waiting # {}
    /\ LET m == CHOOSE w \in Waiting : \A o \in Waiting : w <= o
       IN  inFlight' = inFlight \cup {m}
    /\ UNCHANGED <<runs, reconciled, fill, picked, events, rngArg, rngCall, rng, settled, pc, r, speakers, speeches, votes, voteIdx, allRounds, result,
                   seed, prior, variant, llmModel, loadedEngine, currentModelId,
                   loadingModel, districts, numMembers, rounds, useLlm,
                   parallelLimit, members, currentBill>>

\* A pending call resolves and its reply is parsed, or it rejects and the
\* catch returns abstain: the member's promise is fulfilled.
CallSettles ==
    /\ pc = "vote"
    /\ variant = "client"
    /\ \E m \in inFlight, v \in MemberVotes :
         /\ inFlight' = inFlight \ {m}
         /\ settled' = [k \in DOMAIN settled \cup {m} |->
                           IF k = m THEN v ELSE settled[k]]
    /\ UNCHANGED <<runs, reconciled, fill, picked, events, rngArg, rngCall, rng, pc, r, speakers, speeches, votes, voteIdx, allRounds, result,
                   seed, prior, variant, llmModel, loadedEngine, currentModelId,
                   loadingModel, districts, numMembers, rounds, useLlm,
                   parallelLimit, members, currentBill>>

\* A chunk taken as done as soon as one of its promises is fulfilled.
ChunkRaced == settled # <<>>

\* Promise.all(promises) is fulfilled: every promise of the chunk is.
ChunkDone == DOMAIN settled = VoteChunk

\* await Promise.all(promises) resolves: every promise of the chunk is
\* fulfilled.  (The updates of the iterations with a negative counter repeat
\* the one before and are not added to the notifications again.)  The results are written to the roll call and the chunk loop
\* goes on with the next chunk; after the last chunk batchVote returns and
\* the orchestrator counts, overrides the speakers' votes, builds the tally
\* and records the round.
ChunkSettled ==
    /\ pc = "vote"
    /\ variant = "client"
    /\ ChunkDone
    /\ LET limit == EffectiveLimit(parallelLimit)
           results == [k \in DOMAIN votes \cup DOMAIN settled |->
                          IF k \in DOMAIN settled THEN settled[k] ELSE votes[k]]
       IN  IF voteIdx + limit < Len(members)
           THEN /\ votes' = results
                /\ voteIdx' = NextIndex(voteIdx, limit)
                /\ events' = IF voteIdx < 0 THEN events
                             ELSE VoteUpdates(events, r, FALSE)
                /\ UNCHANGED <<runs, reconciled, fill, picked, rngArg, rngCall, rng, pc, r, speakers, speeches, allRounds, result>>
           ELSE RecordRound(speeches, ClientLlmVote(results, speeches),
                            VoteUpdates(events, r, TRUE))
    /\ settled' = <<>>
    /\ UNCHANGED <<runs, reconciled, fill, picked, rngArg, rngCall, rng, inFlight, seed, prior, variant, llmModel, loadedEngine, currentModelId,
                   loadingModel, districts, numMembers, rounds, useLlm,
                   parallelLimit, members, currentBill>>

NextVote ==
    \/ StartClientParallel
    \/ LoadEngine
    \/ LoadEngineFails
    \/ ClientSample
    \/ ClientSpeak
    \/ ClientSpeakThrows
    \/ DispatchCall
    \/ CallSettles
    \/ ChunkSettled
    \/ ClientAmend
    \/ ClientAmendThrows

SpecVote == Init /\ [][NextVote]_vars

\* Population and round budget of the runs explored with concurrent voting
\* calls followed by an amendment.
AmendMembers == 2
AmendRounds == 2

\* runSimulationClient of lib/simulation.ts is called with inference and an
\* engine for AmendMembers members and AmendRounds rounds.
StartClientAmending ==
    /\ StartClientFrom(ParallelLimits, AmendMembers)
    /\ variant' = "client"
    /\ useLlm'
    /\ loadedEngine # None \/ loadingModel' # None
    /\ numMembers' = AmendMembers
    /\ rounds' = AmendRounds

NextAmend ==
    \/ StartClientAmending
    \/ LoadEngine
    \/ LoadEngineFails
    \/ ClientSample
    \/ ClientSpeak
    \/ ClientSpeakThrows
    \/ DispatchCall
    \/ CallSettles
    \/ ChunkSettled
    \/ ClientAmend
    \/ ClientAmendThrows

SpecAmend == Init /\ [][NextAmend]_vars

\* Values of opts.parallelLimit a caller can configure: nothing checks the
\* number before it becomes the step of the chunk loop.
ConfigurableLimits == ParallelLimits \cup {-1}

\* Largest population explored with the limits ConfigurableLimits.
LimitMaxMembers == 2

\* runSimulationClient of lib/simulation.ts is called with inference, an
\* engine and any configurable batch size.
StartClientAnyLimit ==
    /\ StartClientFrom(ConfigurableLimits, MaxMultiRoundMembers)
    /\ variant' = "client"
    /\ useLlm'
    /\ loadedEngine # None \/ loadingModel' # None
    /\ numMembers' <= LimitMaxMembers

NextLimit ==
    \/ StartClientAnyLimit
    \/ LoadEngine
    \/ LoadEngineFails
    \/ ClientSample
    \/ ClientSpeak
    \/ ClientSpeakThrows
    \/ DispatchCall
    \/ CallSettles
    \/ ChunkSettled
    \/ ClientAmend
    \/ ClientAmendThrows

\* The steps of NextLimit other than the continuation of the chunk loop.
LimitOther ==
    \/ StartClientAnyLimit
    \/ LoadEngine
    \/ LoadEngineFails
    \/ ClientSample
    \/ ClientSpeak
    \/ ClientSpeakThrows
    \/ DispatchCall
    \/ CallSettles
    \/ ClientAmend
    \/ ClientAmendThrows

\* What ChunkSettled does to the loop counter, the fulfilled promises and the
\* position of the run: the chunk loop goes on with the next counter, or
\* batchVote returns and the orchestrator leaves the voting phase.
ChunkLeaves ==
    /\ pc = "vote"
    /\ variant = "client"
    /\ ChunkDone
    /\ settled' = <<>>
    /\ IF voteIdx + EffectiveLimit(parallelLimit) < Len(members)
       THEN /\ voteIdx' = NextIndex(voteIdx, EffectiveLimit(parallelLimit))
            /\ pc' = "vote"
       ELSE /\ voteIdx' = 0
            /\ pc' \in {"speak", "amend", "done"}

\* Every backend call eventually returns or fails and the event loop runs
\* every continuation that is ready: a step that can be taken is taken.
SpecLimit ==
    /\ Init
    /\ [][NextLimit]_vars
    /\ WF_vars(LimitOther)
    /\ WF_<<settled, voteIdx, pc>>(ChunkLeaves)

----------------------------------------------------------------------------
\* The seeded random source (simulation/rng.ts)

\* The numbers of the generator exceed the integers of the checker: a number
\* is kept as a sign and two 16-bit limbs, [neg, hi, lo] = +-(hi * 2^16 + lo).
\* The modulus 4294967296 of next() is Limb * Limb.  All values stay below
\* 2^53, so the double arithmetic of the code is exact.
Limb == 65536

\* Multiplier and increment of next().
Mult == 1664525
Inc == 1013904223

\* Largest number of calls made on one Random object.
MaxDraws == 4

\* Seeds a Random object is constructed with.
RngSeeds == {-1000, -610, -609, -1, 0, 1, 42, 65536, 2147483647}

Num(neg, hi, lo) == [neg |-> neg, hi |-> hi, lo |-> lo]

\* The number x, |x| < 2^31, in limbs.
FromInt(x) ==
    LET a == IF x < 0 THEN -x ELSE x
    IN  Num(x < 0, a \div Limb, a % Limb)

\* (m * Mult) mod 2^32 for the magnitude m = hi * 2^16 + lo, as <<hi, lo>>.
MulMod(hi, lo) ==
    LET p0 == lo * (Mult % Limb)
    IN  << (((hi * (Mult % Limb)) % Limb) + ((lo * (Mult \div Limb)) % Limb)
              + (p0 \div Limb)) % Limb,
           p0 % Limb >>

\* (a + Inc) mod 2^32 and (a - Inc) mod 2^32 on <<hi, lo>>.
AddInc(a) ==
    LET l == a[2] + (Inc % Limb)
    IN  << (a[1] + (Inc \div Limb) + (l \div Limb)) % Limb, l % Limb >>
SubInc(a) ==
    LET borrow == IF a[2] < (Inc % Limb) THEN 1 ELSE 0
    IN  << (a[1] + 2 * Limb - (Inc \div Limb) - borrow) % Limb,
           (a[2] + Limb - (Inc % Limb)) % Limb >>

\* this.seed = (this.seed * 1664525 + 1013904223) % 4294967296
\* The % of the language is the remainder of the truncated division: it has
\* the sign of the dividend.  For st = -m the dividend is Inc - m * Mult,
\* which is negative as soon as m > Inc / Mult.
NextSeed(st) ==
    IF ~st.neg
    THEN LET a == AddInc(MulMod(st.hi, st.lo)) IN Num(FALSE, a[1], a[2])
    ELSE IF st.hi = 0 /\ st.lo <= (Inc \div Mult)
    THEN FromInt(Inc - st.lo * Mult)
    ELSE LET a == SubInc(MulMod(st.hi, st.lo))
         IN  Num(a # <<0, 0>>, a[1], a[2])

\* Math.floor(x * n) for x = st / 2^32 and a small natural n.
FloorTimes(st, n) ==
    LET q == st.hi * n + (st.lo * n) \div Limb
    IN  IF ~st.neg THEN q \div Limb
        ELSE IF (q % Limb) = 0 /\ ((st.lo * n) % Limb) = 0 THEN -(q \div Limb)
        ELSE -(q \div Limb) - 1

\* r < sum for r = (st / 2^32) * total and small integers total and sum.
\* |st * total| = q * 2^16 + rem with 0 <= rem < 2^16.
ScaledLess(st, total, sum) ==
    LET t == IF total < 0 THEN -total ELSE total
        q == st.hi * t + (st.lo * t) \div Limb
        rem == (st.lo * t) % Limb
        negative == (st.neg # (total < 0)) /\ (q # 0 \/ rem # 0)
    IN  IF negative
        THEN sum >= 0 \/ q > (-sum) * Limb \/ (q = (-sum) * Limb /\ rem > 0)
        ELSE sum > 0 /\ q < sum * Limb

\* Sum of the first n weights.
RECURSIVE SumTo(_, _)
SumTo(w, n) == IF n = 0 THEN 0 ELSE SumTo(w, n - 1) + w[n]

\* What items[i] reads for a zero-based index i.
Undefined == "undefined"
ItemAt(items, i) == IF i >= 0 /\ i < Len(items) THEN items[i + 1] ELSE Undefined

\* The loop of choice(): the first item whose cumulative weight exceeds r,
\* the last item when there is none.
RECURSIVE WeightedFrom(_, _, _, _, _)
WeightedFrom(items, w, st, total, i) ==
    IF i > Len(items) THEN items[Len(items)]
    ELSE IF ScaledLess(st, total, SumTo(w, i)) THEN items[i]
    ELSE WeightedFrom(items, w, st, total, i + 1)

\* Items and weights choice() is called with; wopt is <<>> when the weights
\* are omitted and <<w>> otherwise.
ItemLists == {<<>>, <<"a">>, <<"a", "b">>}
WeightValues == {-1, 0, 1}
WeightsFor(items) ==
    {<<>>} \cup {<<w>> : w \in [1..Len(items) -> WeightValues]}

\* new Random(s) with an integer s.
NewRandom ==
    /\ rng = <<>>
    /\ \E s \in RngSeeds : rng' = <<FromInt(s)>>
    /\ UNCHANGED <<runs, reconciled, fill, picked, events, rngArg, rngCall, variant, pc, loadedEngine, currentModelId, loadingModel,
                   districts, numMembers, rounds, useLlm, parallelLimit, members,
                   r, speakers, speeches, votes, voteIdx, allRounds, currentBill,
                   llmModel, result, seed, prior, inFlight, settled>>

\* Number of calls made on the object so far.
Draws == IF rngCall = <<>> THEN 0 ELSE rngCall[1].n

\* next(): the state advances and its quotient by 2^32 is returned (value is
\* the numerator of the returned fraction).
RngNext ==
    /\ rng # <<>>
    /\ Draws < MaxDraws
    /\ rng' = <<NextSeed(rng[1])>>
    /\ rngCall' = <<[op |-> "next", n |-> Draws + 1, before |-> rng[1],
                     value |-> NextSeed(rng[1]),
                     items |-> <<>>, wopt |-> <<>>, returned |-> Undefined]>>
    /\ UNCHANGED <<runs, reconciled, fill, picked, events, rngArg, variant, pc, loadedEngine, currentModelId, loadingModel,
                   districts, numMembers, rounds, useLlm, parallelLimit, members,
                   r, speakers, speeches, votes, voteIdx, allRounds, currentBill,
                   llmModel, result, seed, prior, inFlight, settled>>

\* choice(items, weights): throws on an empty list before any draw; returns
\* the item at the drawn index when the weights are omitted; otherwise walks
\* the cumulative weights.
RngChoice ==
    /\ rng # <<>>
    /\ Draws < MaxDraws
    /\ \E items \in ItemLists :
       \E wopt \in WeightsFor(items) :
         LET st == NextSeed(rng[1])
             call(after, ret) ==
                 <<[op |-> "choice", n |-> Draws + 1, before |-> rng[1],
                    value |-> after, items |-> items, wopt |-> wopt,
                    returned |-> ret]>>
         IN  IF Len(items) = 0
             THEN /\ rng' = rng
                  /\ rngCall' = call(rng[1], "Error: Empty items")
             ELSE IF wopt = <<>>
             THEN /\ rng' = <<st>>
                  /\ rngCall' = call(st, ItemAt(items, FloorTimes(st, Len(items))))
             ELSE /\ rng' = <<st>>
                  /\ rngCall' = call(st, WeightedFrom(items, wopt[1], st,
                                                      SumTo(wopt[1], Len(items)), 1))
    /\ UNCHANGED <<runs, reconciled, fill, picked, events, rngArg, variant, pc, loadedEngine, currentModelId, loadingModel,
                   districts, numMembers, rounds, useLlm, parallelLimit, members,
                   r, speakers, speeches, votes, voteIdx, allRounds, currentBill,
                   llmModel, result, seed, prior, inFlight, settled>>

NextRng ==
    \/ NewRandom
    \/ RngNext
    \/ RngChoice

SpecRng == Init /\ [][NextRng]_vars

----------------------------------------------------------------------------
(***************************************************************************)
(* Two runs of runSimulationClient that overlap in time on the module-    *)
(* level loadedEngine / currentModelId (src/unnamed/part_005:95-96).  Each *)
(* run is started with useLlm and an llmConfig; run i asks for the model   *)
(* SharedModels[i].  Only what decides which engine a call goes to is      *)
(* kept of a run: its position, the engine batchVote was handed, and the   *)
(* models of the engines its calls went to.                                *)
(***************************************************************************)

SharedModels == <<"m1", "m2">>

\* Inference calls followed per run.
MaxSharedCalls == 3

\* Everything but the shared cache and the two runs.
SoloVars ==
    <<variant, pc, districts, numMembers, rounds, useLlm, parallelLimit,
      members, r, speakers, speeches, votes, voteIdx, allRounds, currentBill,
      llmModel, result, seed, prior, inFlight, settled, rng, rngCall, rngArg,
      events, picked, fill, reconciled, loadingModel>>

\* Run i is started: the engine is (re)loaded when no engine of its model
\* is cached (part_005:360-370).
RunStart(i) ==
    /\ pc = "idle"
    /\ runs[i].pc = "idle"
    /\ runs' = [runs EXCEPT
                  ![i] = [@ EXCEPT
                            !.model = SharedModels[i],
                            !.pc = IF loadedEngine = None
                                      \/ currentModelId # SharedModels[i]
                                   THEN "loading" ELSE "speak"]]
    /\ UNCHANGED <<loadedEngine, currentModelId>>
    /\ UNCHANGED SoloVars

\* await engine.reload(model) of run i resolves; the two assignments that
\* follow are not interrupted.
RunLoaded(i) ==
    /\ runs[i].pc = "loading"
    /\ loadedEngine' = runs[i].model
    /\ currentModelId' = runs[i].model
    /\ runs' = [runs EXCEPT ![i].pc = "speak"]
    /\ UNCHANGED SoloVars

\* await engine.reload(model) of run i rejects: the run is over.
RunLoadFails(i) ==
    /\ runs[i].pc = "loading"
    /\ runs' = [runs EXCEPT ![i].pc = "aborted"]
    /\ UNCHANGED <<loadedEngine, currentModelId>>
    /\ UNCHANGED SoloVars

\* Run i makes an inference call to the engine e and goes on at nxt.
CallOn(i, e, nxt) ==
    /\ runs[i].calls < MaxSharedCalls
    /\ runs' = [runs EXCEPT ![i] = [@ EXCEPT !.calls = @ + 1,
                                              !.sentTo = @ \cup {e},
                                              !.pc = nxt]]
    /\ UNCHANGED <<loadedEngine, currentModelId>>
    /\ UNCHANGED SoloVars

\* A decision or speech call of a spokesperson:
\* loadedEngine.chat.completions.create(...) reads the module variable at
\* the call (part_005:428, 438).
RunSpeak(i) ==
    /\ runs[i].pc = "speak"
    /\ CallOn(i, loadedEngine, "speak")

\* batchVote(loadedEngine, ...) is called: the engine of that moment is
\* handed over (part_005:478-479).
RunEnterVote(i) ==
    /\ runs[i].pc = "speak"
    /\ runs' = [runs EXCEPT ![i] = [@ EXCEPT !.pc = "vote",
                                              !.engine = loadedEngine]]
    /\ UNCHANGED <<loadedEngine, currentModelId>>
    /\ UNCHANGED SoloVars

\* A member's call in batchVote goes to the engine it was handed
\* (part_005:191).
RunVote(i) ==
    /\ runs[i].pc = "vote"
    /\ CallOn(i, runs[i].engine, "vote")

\* batchVote returns: the run ends, or the round failed and rounds remain.
RunLeaveVote(i) ==
    /\ runs[i].pc = "vote"
    /\ \E nxt \in {"amend", "done"} :
          runs' = [runs EXCEPT ![i] = [@ EXCEPT !.pc = nxt, !.engine = None]]
    /\ UNCHANGED <<loadedEngine, currentModelId>>
    /\ UNCHANGED SoloVars

\* generateAmendment(loadedEngine, ...) (part_005:545), then the next round.
RunAmend(i) ==
    /\ runs[i].pc = "amend"
    /\ CallOn(i, loadedEngine, "speak")

NextShared ==
    \E i \in {1, 2} :
        \/ RunStart(i)
        \/ RunLoaded(i)
        \/ RunLoadFails(i)
        \/ RunSpeak(i)
        \/ RunEnterVote(i)
        \/ RunVote(i)
        \/ RunLeaveVote(i)
        \/ RunAmend(i)

SpecShared == Init /\ [][NextShared]_vars

----------------------------------------------------------------------------
(***************************************************************************)
(* What the decision prompts of the client orchestrator show of the bill  *)
(* (src/unnamed/part_005:148-174, 407-414).  Lengths are in characters.    *)
(***************************************************************************)

\* Characters of the summaries, of "\n\nAMENDMENT (Round N): " and of the
\* amendment texts.
SummaryChars(sm) == IF sm = LongSummary THEN 600 ELSE 7
TagChars == 23
AmendChars(text) == IF text = GenericAmendment THEN 56 ELSE 12

\* Offset in bill.summary of the end of its k-th piece.
RECURSIVE EndOffset(_, _)
EndOffset(bill, k) ==
    IF k = 1 THEN SummaryChars(bill.summary[1])
    ELSE EndOffset(bill, k - 1) + TagChars + AmendChars(bill.summary[k].text)

\* Context lengths: contextText.slice(0, 500) of the spokesperson decision
\* and contextText.slice(0, 1500) of the member vote.
SpeakerContextChars == 500
VoterContextChars == 1500

\* The amendments (pieces of the summary) whose text lies in the first
\* limit characters of
\*   bill.text_content ? bill.text_content.slice(...) : bill.summary
ShownAmendments(bill, limit) ==
    IF bill.text_content # <<>> THEN {}
    ELSE {k \in 2..Len(bill.summary) : EndOffset(bill, k) <= limit}

\* runSimulationClient of lib/simulation.ts is called with any of the bills.
InitPrompt == \E bill \in Bills : InitFor(bill)

SpecPrompt == InitPrompt /\ [][NextAmend]_vars

----------------------------------------------------------------------------
(***************************************************************************)
(* The consistency override of runSimulationClient as a function of the   *)
(* votes batchVote returned and the speeches of the round                  *)
(* (src/unnamed/part_005:486-528).                                         *)
(***************************************************************************)

\* Population sizes of the rounds reconciled: with fewer than five members
\* a member speaks more than once, from six on a member does not speak.
ReconcileSizes == {1, 2, 6}

AllStances == {"support", "oppose", "amend"}
AllVotes == {"yes", "no", "abstain"}

\* The speeches of a round of n members (sampled with equal ideologies):
\* one per speaker slot, with any stances.
SpeechesOf(n) ==
    LET ms == SampledMembers(n, [i \in 1..n |-> 0], [i \in 1..n |-> 0])
        sp == ClientSpeakers(ms)
    IN  {[j \in 1..Len(sp) |-> [member_id |-> sp[j].member_id, stance |-> st[j]]] :
            st \in [1..Len(sp) -> AllStances]}

\* batchVote returned vs (one vote for every member) and the round has the
\* speeches ss: count, override, build the tally.
ReconcileRound ==
    /\ pc = "idle"
    /\ reconciled = <<>>
    /\ \E n \in ReconcileSizes :
         \E vs \in [1..n -> AllVotes], ss \in SpeechesOf(n) :
            reconciled' = <<[backend |-> vs, speeches |-> ss,
                             vote |-> ClientLlmVote(vs, ss)]>>
    /\ UNCHANGED <<runs, variant, pc, loadedEngine, currentModelId, loadingModel,
                   districts, numMembers, rounds, useLlm, parallelLimit,
                   members, r, speakers, speeches, votes, voteIdx, allRounds,
                   currentBill, llmModel, result, seed, prior, inFlight,
                   settled, rng, rngCall, rngArg, events, picked, fill>>

NextReconcile == ReconcileRound

SpecReconcile == Init /\ [][NextReconcile]_vars

----------------------------------------------------------------------------
(***************************************************************************)
(* pickSpokespeople as a function of any population and any k             *)
(* (src/unnamed/part_002:38-74).  Indices are 0-based, as in the source.   *)
(***************************************************************************)

\* Largest population and largest k handed to pickSpokespeople.
MaxPickMembers == 9
MaxPickK == 8

\* Ideologies of the populations handed to pickSpokespeople.
PickIdeologies == {0, 1}

\* The populations with ideologies in ideos: member i of the array has id i.
PopulationsOf(ideos) ==
    UNION {{[i \in 1..n |-> [member_id |-> i, ideology |-> ideo[i]]] :
               ideo \in [1..n -> ideos]} : n \in 0..MaxPickMembers}

PickInputs == PopulationsOf(PickIdeologies)

\* Populations for following the fill loop, whose exit does not depend on
\* the ideologies: one population of each size.
FillInputs == PopulationsOf({0})

\* idxs = [0, floor(len/4), floor(len/2), floor(3*len/4), len-1]
QuantileIdxs(len) ==
    <<0, len \div 4, len \div 2, (3 * len) \div 4, len - 1>>

\* The for loop over idxs: an index is pushed unless its member was seen.
\* Ids are unique, so the member at an index was seen iff the index was.
RECURSIVE PushUnseen(_, _)
PushUnseen(idxs, chosen) ==
    IF idxs = <<>> THEN chosen
    ELSE PushUnseen(Tail(idxs),
                    IF \E j \in 1..Len(chosen) : chosen[j] = Head(idxs)
                    THEN chosen
                    ELSE Append(chosen, Head(idxs)))

\* Indices of mid = sortedM.slice(floor(len/4), floor(3*len/4)).
MidIdxs(len) == {i \in 0..(len - 1) : i >= len \div 4 /\ i < (3 * len) \div 4}

\* The orders in which the fill loop can push the members of a set.
PushOrders(S) ==
    {f \in [1..Cardinality(S) -> S] :
        \A i, j \in 1..Cardinality(S) : i # j => f[i] # f[j]}

\* What the fill loop can leave in chosen, <<>> standing for a loop that
\* never exits.  Every iteration draws an index of mid at random and pushes
\* the member unless seen, so the loop exits with chosen.length = k exactly
\* when mid holds enough unseen members; otherwise it exits only through
\* the break, that is when every member of the population was seen.
FillOutcomes(chosen, len, k) ==
    LET unseen == {i \in MidIdxs(len) : \A j \in 1..Len(chosen) : chosen[j] # i}
        need   == k - Len(chosen)
    IN  IF need <= 0 \/ MidIdxs(len) = {}
        THEN {<<chosen>>}
        ELSE IF Cardinality(unseen) >= need
        THEN {<<chosen \o f>> :
                 f \in UNION {PushOrders(S) : S \in {T \in SUBSET unseen :
                                                       Cardinality(T) = need}}}
        ELSE IF Len(chosen) + Cardinality(unseen) >= len
        THEN {<<chosen \o f>> : f \in PushOrders(unseen)}
        ELSE {<<>>}

\* The outcomes of pickSpokespeople(ms, k): <<the returned array>>, or <<>>
\* when the call does not return.
PickOutcomes(ms, k) ==
    LET sortedM == SortByIdeology(ms)
        len     == Len(sortedM)
    IN  IF len <= k
        THEN {<<sortedM>>}
        ELSE {IF c = <<>> THEN <<>>
              ELSE <<SortByIdeology([j \in 1..Len(c[1]) |-> sortedM[c[1][j] + 1]])>> :
                 c \in FillOutcomes(PushUnseen(QuantileIdxs(len), <<>>), len, k)}

\* One call of pickSpokespeople.  The argument array is copied before it
\* is sorted, so members is what the caller still holds after the call.
PickCall ==
    /\ pc = "idle"
    /\ picked = <<>>
    /\ \E ms \in PickInputs, k \in 1..MaxPickK :
         \E out \in PickOutcomes(ms, k) :
            picked' = <<[members |-> ms, k |-> k, returned |-> out]>>
    /\ UNCHANGED <<runs, reconciled, fill, variant, pc, loadedEngine, currentModelId, loadingModel,
                   districts, numMembers, rounds, useLlm, parallelLimit,
                   members, r, speakers, speeches, votes, voteIdx, allRounds,
                   currentBill, llmModel, result, seed, prior, inFlight,
                   settled, rng, rngCall, rngArg, events>>

NextPick == PickCall

SpecPick == Init /\ [][NextPick]_vars

\* pickSpokespeople step by step, to follow its fill loop.  PickEnter is
\* the code up to the while statement.
PickEnter ==
    /\ pc = "idle"
    /\ picked = <<>>
    /\ fill = <<>>
    /\ \E ms \in FillInputs, k \in 0..MaxPickK :
         IF Len(ms) <= k
         THEN /\ picked' = <<[members |-> ms, k |-> k,
                              returned |-> <<SortByIdeology(ms)>>]>>
              /\ fill' = <<>>
         ELSE /\ picked' = <<[members |-> ms, k |-> k, returned |-> <<>>]>>
              /\ fill' = <<PushUnseen(QuantileIdxs(Len(ms)), <<>>)>>
    /\ UNCHANGED <<runs, reconciled, variant, pc, loadedEngine, currentModelId, loadingModel,
                   districts, numMembers, rounds, useLlm, parallelLimit,
                   members, r, speakers, speeches, votes, voteIdx, allRounds,
                   currentBill, llmModel, result, seed, prior, inFlight,
                   settled, rng, rngCall, rngArg, events>>

\* while (chosen.length < k && mid.length > 0)
FillCondition ==
    /\ fill # <<>>
    /\ Len(fill[1]) < picked[1].k
    /\ MidIdxs(Len(picked[1].members)) # {}

\* The members at the indices of c, sorted again by ideology.
SortedChoice(ms, c) ==
    SortByIdeology([j \in 1..Len(c) |-> SortByIdeology(ms)[c[j] + 1]])

\* One iteration of the fill loop, the random draw being the index i of
\* the sorted population: push unless seen, then the break test.
FillDraw(i) ==
    /\ FillCondition
    /\ i \in MidIdxs(Len(picked[1].members))
    /\ LET c   == fill[1]
           c2  == IF \E j \in 1..Len(c) : c[j] = i THEN c ELSE Append(c, i)
           len == Len(picked[1].members)
       IN  IF Len(c2) < picked[1].k /\ Len(c2) >= len
           THEN /\ picked' = <<[picked[1] EXCEPT
                                  !.returned = <<SortedChoice(picked[1].members, c2)>>]>>
                /\ fill' = <<>>
           ELSE /\ fill' = <<c2>>
                /\ UNCHANGED picked
    /\ UNCHANGED <<runs, reconciled, variant, pc, loadedEngine, currentModelId, loadingModel,
                   districts, numMembers, rounds, useLlm, parallelLimit,
                   members, r, speakers, speeches, votes, voteIdx, allRounds,
                   currentBill, llmModel, result, seed, prior, inFlight,
                   settled, rng, rngCall, rngArg, events>>

\* The loop condition fails: return chosen.sort(...)
FillReturn ==
    /\ fill # <<>>
    /\ ~FillCondition
    /\ picked' = <<[picked[1] EXCEPT
                      !.returned = <<SortedChoice(picked[1].members, fill[1])>>]>>
    /\ fill' = <<>>
    /\ UNCHANGED <<runs, reconciled, variant, pc, loadedEngine, currentModelId, loadingModel,
                   districts, numMembers, rounds, useLlm, parallelLimit,
                   members, r, speakers, speeches, votes, voteIdx, allRounds,
                   currentBill, llmModel, result, seed, prior, inFlight,
                   settled, rng, rngCall, rngArg, events>>

NextFill ==
    \/ PickEnter
    \/ \E i \in 0..(MaxPickMembers - 1) : FillDraw(i)
    \/ FillReturn

\* The steps of FillReturn, and the iterations that draw a member not seen
\* before, told by what they do to fill.
FillExit ==
    /\ fill # <<>>
    /\ ~FillCondition
    /\ fill' = <<>>

FillUnseen ==
    /\ FillCondition
    /\ \E i \in MidIdxs(Len(picked[1].members)) :
          /\ \A j \in 1..Len(fill[1]) : fill[1][j] # i
          /\ fill' \in {<<>>, <<Append(fill[1], i)>>}

\* The synchronous code runs on, and as long as the middle band holds an
\* unseen member one is eventually drawn.
SpecFill ==
    /\ Init
    /\ [][NextFill]_vars
    /\ WF_fill(FillExit)
    /\ WF_fill(FillUnseen)

----------------------------------------------------------------------------
\* Properties

LastRound == allRounds[Len(allRounds)]

\* C1: in every round recorded by runSimulationClient, the roll call maps the
\* member_id of every speech of the round to the vote implied by the stance
\* of that speech (support -> yes, oppose -> no, amend -> abstain), for every
\* population size and with inference on or off.
C1_ReconciliationInvariant ==
    IsClient =>
        \A i \in 1..Len(allRounds) :
            \A j \in 1..Len(allRounds[i].speeches) :
                LET s == allRounds[i].speeches[j]
                    rollCall == allRounds[i].vote.rollCall
                IN  /\ s.member_id \in DOMAIN rollCall
                    /\ rollCall[s.member_id] = ForcedVote(s.stance)

\* C2: in every round recorded by any of the three orchestrators, yes + no +
\* abstain of the tally equals the number of sampled members.
C2_TallyCoversPopulation ==
    \A i \in 1..Len(allRounds) :
        LET v == allRounds[i].vote
        IN  v.yes + v.no + v.abstain = numMembers

\* C3: in every recorded tally, passed is true exactly when
\* yes / max(1, yes + no) >= threshold, the boundary included, whatever the
\* abstain count (client orchestrators and asyncVote).
C3_PassedIsThresholdTest ==
    \A i \in 1..Len(allRounds) :
        LET v == allRounds[i].vote
        IN  v.passed <=> (v.yes * v.threshold.den
                            >= Max(1, v.yes + v.no) * v.threshold.num)

\* C4 as stated: a completed run returns a round list of length L with
\* 1 <= L <= rounds, for every configured value of rounds.
C4_LengthWithinBudget ==
    pc = "done" => (1 <= Len(result.rounds) /\ Len(result.rounds) <= rounds)

\* C4 amended: a completed run with rounds >= 1 returns a round list of
\* length L with 1 <= L <= rounds; with rounds = 0 the loop body never runs
\* and the returned list is empty.
C4_LengthWithinPositiveBudget ==
    pc = "done" =>
        IF rounds >= 1
        THEN 1 <= Len(result.rounds) /\ Len(result.rounds) <= rounds
        ELSE Len(result.rounds) = 0

\* A run with a budget of three rounds has returned after its second round.
C4_Witness ==
    pc = "done" /\ rounds = 3 /\ Len(result.rounds) = 2

\* C5: in every completed run that recorded a round, final_passed equals the
\* passed flag of the tally of the last recorded round (client orchestrators
\* and runSimulation); the returned list is the recorded one.
C5_FinalPassedIsLastPassed ==
    pc = "done" =>
        /\ result.rounds = allRounds
        /\ Len(result.rounds) > 0 =>
              result.final_passed = result.rounds[Len(result.rounds)].vote.passed

\* A completed run of several rounds whose last round passed.
C5_Witness ==
    /\ pc = "done"
    /\ Len(result.rounds) >= 2
    /\ result.final_passed
    /\ ~result.rounds[1].vote.passed

\* The i-th recorded round (0-based) has round_index i.
RoundIndexesInOrder ==
    \A i \in 1..Len(allRounds) : allRounds[i].round_index = i - 1

\* A step keeps every recorded round in its place, with its index, speeches
\* and tally.
RoundsOnlyAppended ==
    /\ Len(allRounds') >= Len(allRounds)
    /\ \A i \in 1..Len(allRounds) :
          /\ allRounds'[i].round_index = allRounds[i].round_index
          /\ allRounds'[i].speeches = allRounds[i].speeches
          /\ allRounds'[i].vote = allRounds[i].vote

\* C6: at every point of a run the i-th recorded round (0-based) has
\* round_index i, and rounds are only ever appended, never removed or
\* reordered.
C6_RoundIndexGapFree ==
    [] RoundIndexesInOrder /\ [][RoundsOnlyAppended]_vars

\* Three rounds are recorded.
C6_Witness ==
    Len(allRounds) = 3 /\ allRounds[3].round_index = 2

\* C7: passed is terminal.  Every recorded round other than the last has
\* passed = false, and once the last recorded round has passed the run has
\* returned: no round is being debated or voted, no amendment is being
\* generated and the passed round carries none.
C7_PassedIsTerminal ==
    /\ \A i \in 1..(Len(allRounds) - 1) : ~allRounds[i].vote.passed
    /\ (Len(allRounds) > 0 /\ LastRound.vote.passed) =>
          /\ pc = "done"
          /\ result.rounds = allRounds
          /\ IsClient => LastRound.amendment = None

\* A client run stopped by a passed round with rounds of its budget left.
C7_Witness ==
    /\ IsClient
    /\ pc = "done"
    /\ Len(allRounds) = 2
    /\ LastRound.vote.passed
    /\ rounds = 3

\* C8: in runSimulationClient a failed round r with r < rounds - 1 is
\* followed by round r + 1, and the run stops with a failure only when the
\* failed round is the last allowed one: a run that has ended and whose last
\* recorded round failed has recorded exactly `rounds` rounds.
C8_StopsOnlyAtLastAllowedRound ==
    (IsClient /\ pc \in {"done", "aborted"} /\ Len(allRounds) > 0
        /\ ~LastRound.vote.passed)
      => Len(allRounds) = rounds

\* Amendment entries of the bill summary (the first piece is the original).
AmendmentEntries == 2..Len(currentBill.summary)

\* C9: an amendment is appended to the bill and recorded on a round only
\* after the tally of that round has been computed, and a round that carries
\* an amendment has passed = false.  Every amendment entry of the summary is
\* tagged with a round that is already recorded with a failed tally and
\* carries that text; every round carrying an amendment failed and its text
\* is in the summary.
C9_AmendmentOnlyAfterFailedTally ==
    IsClient =>
        /\ \A k \in AmendmentEntries :
              LET e == currentBill.summary[k]
              IN  /\ e.round <= Len(allRounds)
                  /\ ~allRounds[e.round].vote.passed
                  /\ allRounds[e.round].amendment = e.text
        /\ \A i \in 1..Len(allRounds) :
              allRounds[i].amendment # None =>
                  /\ ~allRounds[i].vote.passed
                  /\ \E k \in AmendmentEntries :
                        currentBill.summary[k] = [round |-> i, text |-> allRounds[i].amendment]

\* The next round is debated on a bill that carries the amendment recorded
\* on the failed round before it.
C9_Witness ==
    /\ IsClient
    /\ pc = "speak"
    /\ r = 1
    /\ Len(allRounds) = 1
    /\ allRounds[1].amendment # None
    /\ Len(currentBill.summary) = 2

\* C10: whenever a round of runSimulationClient fails and rounds remain, an
\* amendment is recorded on that round and appended to the bill summary
\* before the debate of the next round starts, with inference on or off:
\* while round r >= 1 is debated or voted, round r - 1 carries an amendment
\* and the summary has an entry tagged with it.
C10_AmendedBeforeNextRound ==
    (IsClient /\ pc \in {"speak", "vote"} /\ r >= 1) =>
        /\ allRounds[r].amendment # None
        /\ \E k \in AmendmentEntries : currentBill.summary[k].round = r

\* C11: a failed round that is the last allowed round never enters the
\* amendment phase: the amendment call is awaited only while rounds remain,
\* the record of the last allowed round carries no amendment and the bill
\* summary has no entry tagged with it.
C11_NoAmendmentAfterLastRound ==
    IsClient =>
        /\ pc = "amend" => r < rounds - 1
        /\ \A i \in 1..Len(allRounds) :
              i >= rounds => allRounds[i].amendment = None
        /\ \A k \in AmendmentEntries : currentBill.summary[k].round < rounds

\* An inference run with a budget of one round has returned after a failed
\* vote: one round, no amendment, the bill as handed in, final_passed false.
C11_Witness ==
    /\ IsClient
    /\ LlmMode
    /\ pc = "done"
    /\ rounds = 1
    /\ Len(result.rounds) = 1
    /\ ~result.final_passed
    /\ result.rounds[1].amendment = None
    /\ currentBill = BaseBill

\* A step leaves the bill alone or appends one amendment to its summary,
\* tagged with the 1-based number of the last recorded round, which failed.
BillAppendOnly ==
    /\ currentBill'.title = currentBill.title
    /\ \/ currentBill'.summary = currentBill.summary
       \/ /\ Len(allRounds) > 0
          /\ ~LastRound.vote.passed
          /\ Len(currentBill'.summary) = Len(currentBill.summary) + 1
          /\ SubSeq(currentBill'.summary, 1, Len(currentBill.summary))
                = currentBill.summary
          /\ currentBill'.summary[Len(currentBill'.summary)].round
                = LastRound.round_index + 1

\* C12: bill mutation is append-only.  The title never changes, the summary
\* before a step is a prefix of the summary after it, and the only change is
\* appending an amendment tagged with the 1-based number of the round that
\* just failed.
C12_BillAppendOnly ==
    [][BillAppendOnly]_vars

\* The bill carries the amendments of two failed rounds.
C12_Witness ==
    /\ Len(currentBill.summary) = 3
    /\ currentBill.summary[2].round = 1
    /\ currentBill.summary[3].round = 2
    /\ currentBill.title = BaseBill.title

\* C13: determinism.  Two runs started with the same seed, districts, bill
\* and configuration and without inference produce identical results: the
\* same members with the same ideologies, the same speeches and stances, the
\* same tallies and the same number of rounds (runSimulation and
\* runSimulationClient).
C13_SameSeedSameResult ==
    (pc = "done" /\ prior # <<>>) =>
        /\ members = prior[1].members
        /\ result = prior[1].result

\* C14: no failing inference call of the debate or vote phase aborts a run of
\* runSimulationClient; when every call fails the run still completes (with
\* every vote abstain and passed false).
C14_BackendFailureNeverAborts ==
    [][(IsClient /\ pc \in {"speak", "vote"}) => pc' # "aborted"]_vars

\* C15: when the inference call of the amendment generator fails after a
\* failed non-final round the run is not aborted: an amendment text (the
\* generic one) is recorded on the round and appended to the bill summary,
\* and the run goes on with round r + 1.
C15_AmendmentFailureRecovered ==
    [][(IsClient /\ pc = "amend") =>
          /\ pc' # "aborted"
          /\ allRounds'[Len(allRounds)].amendment # None
          /\ Len(currentBill'.summary) = Len(currentBill.summary) + 1
          /\ r' = r + 1]_vars

C17_VoteIsValidToken ==
    variant = "engine" =>
        /\ DecideVote(useLlm, llmModel, rounds) \subseteq {"yes", "no", "abstain"}
        /\ ~useLlm => DecideVote(useLlm, llmModel, rounds) \subseteq {"yes", "no"}

\* With no district nothing has happened beyond the engine load: no member
\* is sampled (onInit), no speech given (onSpeech), no vote cast
\* (onVoteUpdate), no round recorded (onRoundComplete), nothing returned.
NothingDoneWithoutDistricts ==
    (variant # None /\ districts = 0) =>
        /\ pc \in {"loading", "sample", "aborted"}
        /\ members = <<>>
        /\ speakers = <<>>
        /\ speeches = <<>>
        /\ votes = <<>>
        /\ voteIdx = 0
        /\ allRounds = <<>>
        /\ currentBill = BaseBill
        /\ result = None

\* C18: with an empty district list the run fails before any member is
\* sampled: no round is executed, no notification is issued, no decision
\* call is made, and the failed run takes no further step (it is not
\* retried).
C18_NoDistrictsFailsBeforeSampling ==
    [] NothingDoneWithoutDistricts /\ [][pc # "aborted"]_vars

\* A run asked for members and rounds has failed on the empty district list.
C18_Witness ==
    /\ variant # None
    /\ districts = 0
    /\ pc = "aborted"
    /\ numMembers >= 1
    /\ rounds >= 1

\* The sampled population: n members with ids M-0001.. in sampling order,
\* ideology in [-1, 1], district from the supplied list.
MembersWellFormed ==
    /\ pc \in {"speak", "vote", "amend", "done"} => Len(members) = numMembers
    /\ Len(members) \in {0, numMembers}
    /\ \A i \in 1..Len(members) :
          /\ members[i].member_id = i
          /\ members[i].ideology \in -1..1
          /\ members[i].district \in 0..(districts - 1)
    /\ pc = "done" =>
          result.members = (IF IsClient THEN members ELSE Len(members))

BatchOf(k, limit) == (k - 1) \div limit

\* C20: during the voting phase the number of decision calls in flight never
\* exceeds the configured batch size (parallelLimit, default 5), and the
\* batches are strictly sequential: every call dispatched and not yet
\* written to the roll call belongs to the current batch, and every call of
\* an earlier batch has completed.  Outside the voting phase no call is in
\* flight.
C20_BatchesBoundedAndSequential ==
    LET limit == IF parallelLimit = 0 THEN 5 ELSE parallelLimit
        current == voteIdx \div limit
    IN  IF pc = "vote" /\ variant = "client"
        THEN /\ Cardinality(inFlight) <= limit
             /\ \A k \in inFlight \cup DOMAIN settled : BatchOf(k, limit) = current
             /\ \A k \in 1..Len(members) :
                   BatchOf(k, limit) < current =>
                       k \in DOMAIN votes /\ k \notin inFlight
        ELSE inFlight = {} /\ settled = <<>>

\* A call of the second batch is in flight, the two calls of the first
\* batch having completed.
C20_Witness ==
    /\ pc = "vote"
    /\ parallelLimit = 2
    /\ DOMAIN votes = {1, 2}
    /\ inFlight = {3}

\* (st * 1664525 + 1013904223) mod 2^32 with the result in [0, 2^32): the
\* remainder of the code when that is not negative, else 2^32 more.
ModNext(st) ==
    LET y == NextSeed(st)
    IN  IF ~y.neg THEN y
        ELSE IF y.lo = 0 THEN Num(FALSE, Limb - y.hi, 0)
        ELSE Num(FALSE, Limb - 1 - y.hi, Limb - y.lo)

\* C21: for every integer seed and after any number of calls, next() returns
\* a value in [0, 1) and leaves the state an integer in [0, 2^32) equal to
\* (previous state * 1664525 + 1013904223) mod 2^32.
C21_NextInUnitInterval ==
    \A i \in 1..Len(rngCall) :
        rngCall[i].op = "next" =>
            /\ ~rngCall[i].value.neg
            /\ rngCall[i].value = ModNext(rngCall[i].before)
            /\ rng = <<rngCall[i].value>>

\* C22: choice() on an empty list fails and leaves the state unchanged;
\* otherwise it consumes exactly one draw and returns an element of items:
\* items[floor(next() * length)] when the weights are omitted, the last
\* item when the weights sum to zero.
C22_ChoiceContract ==
    \A i \in 1..Len(rngCall) :
        LET c == rngCall[i]
            n == Len(c.items)
        IN  c.op = "choice" =>
              IF n = 0
              THEN c.returned = "Error: Empty items" /\ c.value = c.before
              ELSE /\ c.value = NextSeed(c.before)
                   /\ rng = <<c.value>>
                   /\ \E j \in 1..n : c.returned = c.items[j]
                   /\ c.wopt = <<>> =>
                         c.returned = ItemAt(c.items, FloorTimes(c.value, n))
                   /\ (c.wopt # <<>> /\ SumTo(c.wopt[1], n) = 0) =>
                         c.returned = c.items[n]

\* C23: in runSimulation a failed round r with r < rounds - 1 is followed by
\* round r + 1; the run stops after a failed round only when that round is
\* the last allowed one, so a returned run whose last round failed has
\* recorded `rounds` rounds.
C23_EngineStopsOnlyAtLastRound ==
    (variant = "engine" /\ pc = "done" /\ Len(allRounds) > 0
        /\ ~LastRound.vote.passed)
      => LastRound.round_index = rounds - 1

\* Number of speeches of ss with stance st.
StanceCount(ss, st) == Cardinality({j \in 1..Len(ss) : ss[j].stance = st})

\* C24: in runSimulation the vote counted in a round's tally for each
\* spokesperson is the vote implied by the stance of that spokesperson's
\* speech.  The spokespeople of a round are distinct members, so the tally
\* counts at least one yes for each supporting speech, one no for each
\* opposing speech and one abstention for each amending speech.
C24_EngineTallyMatchesStances ==
    variant = "engine" =>
        \A i \in 1..Len(allRounds) :
            LET rd == allRounds[i]
            IN  /\ StanceCount(rd.speeches, "support") <= rd.vote.yes
                /\ StanceCount(rd.speeches, "oppose") <= rd.vote.no
                /\ StanceCount(rd.speeches, "amend") <= rd.vote.abstain

\* seed ?? Date.now(): the constructor falls back to the time-derived seed
\* when its argument is null or undefined.
UsesTimeSeed == rngArg # <<>> /\ rngArg[1] = <<>>

\* C25: a run requested with an explicit integer seed, seed 0 included,
\* drives its random source with exactly that seed; the time-derived seed is
\* used only when the request has no seed.
C25_ExplicitSeedReachesRandom ==
    (variant = "engine" /\ rngArg # <<>>) =>
        /\ seed # <<>> => rngArg[1] = seed
        /\ UsesTimeSeed => seed = <<>>

\* The roll call after the settled calls of the chunk have been written.
MergedRollCall ==
    [k \in DOMAIN votes \cup DOMAIN settled |->
        IF k \in DOMAIN settled THEN settled[k] ELSE votes[k]]

\* During the voting phase the roll call holds exactly the members of the
\* completed batches, and no member is at once decided and pending.
DecidedOnce ==
    (pc = "vote" /\ variant = "client") =>
        /\ DOMAIN votes = {members[k].member_id : k \in 1..Min(voteIdx, Len(members))}
        /\ CountVotes(votes, "yes") + CountVotes(votes, "no")
              + CountVotes(votes, "abstain") = Min(voteIdx, Len(members))
        /\ DOMAIN votes \cap (inFlight \cup DOMAIN settled) = {}
        /\ inFlight \cap DOMAIN settled = {}

\* A call is dispatched only for a member without a pending or completed
\* call in this round; when a batch completes every member of it gets the
\* vote its own call resolved to, in whatever order the calls completed, and
\* after the last batch the tally is counted from those votes of all members.
NoLostUpdate ==
    /\ \A m \in inFlight' \ inFlight : m \notin DOMAIN settled \cup DOMAIN votes
    /\ (settled # <<>> /\ settled' = <<>>) =>
          IF pc' = "vote"
          THEN votes' = MergedRollCall
          ELSE /\ DOMAIN MergedRollCall = {members[k].member_id : k \in 1..Len(members)}
               /\ allRounds'[Len(allRounds')].vote = ClientLlmVote(MergedRollCall, speeches)

C27_RunTerminates == <>(pc \in {"done", "aborted"})

\* C28: within a round every decision call observes the same bill: the bill
\* changes only by the amendment step, when no voting call is pending or
\* unwritten and round r has been recorded, and what is appended is the
\* amendment of round r (labelled r + 1).
C28_BillStableWithinRound ==
    [][currentBill' # currentBill =>
          /\ pc = "amend"
          /\ inFlight = {} /\ settled = <<>>
          /\ Len(allRounds) = r + 1 /\ LastRound.round_index = r
          /\ Len(currentBill'.summary) = Len(currentBill.summary) + 1
          /\ currentBill'.summary[Len(currentBill'.summary)].round = r + 1
          /\ \A i \in 1..Len(currentBill.summary) :
                currentBill'.summary[i] = currentBill.summary[i]]_vars

\* Two voting calls of the second round are pending with the bill as amended
\* after the first round.
C28_Witness ==
    /\ pc = "vote"
    /\ r = 1
    /\ inFlight = {1, 2}
    /\ Len(currentBill.summary) = 2

\* Notifications of the given kind made during round rr.
EventCount(kind, rr) ==
    Cardinality({i \in 1..Len(events) : events[i].kind = kind /\ events[i].round = rr})

\* Place of a kind of notification within its round.
EventRank(kind) == IF kind = "speech" THEN 1 ELSE IF kind = "vote" THEN 2 ELSE 3

C30_PickExactlyK ==
    picked # <<>> =>
        LET ms  == picked[1].members
            k   == picked[1].k
            out == picked[1].returned
        IN  /\ out # <<>>
            /\ LET res == out[1]
               IN  /\ Len(res) = Min(k, Len(ms))
                   /\ \A i, j \in 1..Len(res) :
                         i # j => res[i].member_id # res[j].member_id
                   /\ \A i \in 1..Len(res) : \E j \in 1..Len(ms) : res[i] = ms[j]
                   /\ \A i \in 1..(Len(res) - 1) :
                         res[i].ideology <= res[i + 1].ideology
                   /\ Len(ms) > k =>
                         /\ \A j \in 1..Len(ms) :
                               res[1].ideology <= ms[j].ideology
                         /\ \A j \in 1..Len(ms) :
                               ms[j].ideology <= res[Len(res)].ideology
                   /\ Len(ms) <= k => res = SortByIdeology(ms)

\* C31: every call of pickSpokespeople returns, for every population and
\* every k >= 0, when every member of the middle band keeps being drawn.
C31_PickTerminates ==
    (picked # <<>>) ~> (picked # <<>> /\ picked[1].returned # <<>>)

\* C32: in every round of runSimulationClient the selected spokespeople are
\* pairwise distinct by member_id, and no member gives more than one speech
\* in a recorded round, for every population of at least one member.
C32_SpeakersDistinct ==
    IsClient =>
        /\ \A i, j \in 1..Len(speakers) :
              i # j => speakers[i].member_id # speakers[j].member_id
        /\ \A q \in 1..Len(allRounds) :
              \A i, j \in 1..Len(allRounds[q].speeches) :
                 i # j => allRounds[q].speeches[i].member_id
                             # allRounds[q].speeches[j].member_id

\* Members who gave a speech in the reconciled round.
Spoke == {reconciled[1].speeches[j].member_id :
             j \in 1..Len(reconciled[1].speeches)}

\* Change of the number of spokespeople whose roll-call entry is v.
Rebucketed(v) ==
    Cardinality({m \in Spoke : reconciled[1].vote.rollCall[m] = v})
       - Cardinality({m \in Spoke : reconciled[1].backend[m] = v})

\* C33: reconciliation changes only spokespeople's entries: a member who
\* gave no speech keeps the vote the backend returned, every counter moves
\* by the net re-bucketing of the spokespeople, and yes + no + abstain is
\* the number of backend votes as before.
C33_ReconcileTouchesSpeakersOnly ==
    reconciled # <<>> =>
        LET b == reconciled[1].backend
            v == reconciled[1].vote
        IN  /\ DOMAIN v.rollCall = DOMAIN b
            /\ \A m \in DOMAIN b \ Spoke : v.rollCall[m] = b[m]
            /\ v.yes - CountVotes(b, "yes") = Rebucketed("yes")
            /\ v.no - CountVotes(b, "no") = Rebucketed("no")
            /\ v.abstain - CountVotes(b, "abstain") = Rebucketed("abstain")
            /\ v.yes + v.no + v.abstain = Cardinality(DOMAIN b)

\* A round of six members in which the member who did not speak voted yes
\* and a spokesperson was moved from yes to no.
C33_Witness ==
    /\ reconciled # <<>>
    /\ Cardinality(DOMAIN reconciled[1].backend) = 6
    /\ \E m \in DOMAIN reconciled[1].backend \ Spoke :
          reconciled[1].vote.rollCall[m] = "yes"
    /\ \E m \in Spoke : /\ reconciled[1].backend[m] = "yes"
                        /\ reconciled[1].vote.rollCall[m] = "no"

\* The orders in which the five speeches of a round can be taken.
SpeechOrders ==
    {p \in [1..5 -> 1..5] : \A i, j \in 1..5 : i # j => p[i] # p[j]}

\* C34: reconciliation is order-independent: applying the overrides of the
\* speeches of a round in any order gives the same roll call and the same
\* yes, no and abstain counts.
C34_ReconcileOrderIndependent ==
    reconciled # <<>> =>
        \A p \in SpeechOrders :
            ClientLlmVote(reconciled[1].backend,
                          [j \in 1..5 |-> reconciled[1].speeches[p[j]]])
               = reconciled[1].vote

\* C35: after an amendment was generated for a failed round, every decision
\* call of the next round (the spokespeople's stance decisions and the
\* members' votes) is shown a text that contains that amendment, also for a
\* bill with extended text content.
C35_AmendmentInNextPrompts ==
    (variant = "client" /\ LlmMode /\ r >= 1 /\ r <= Len(allRounds)
        /\ allRounds[r].amendment # None) =>
        /\ pc = "speak" =>
              Len(currentBill.summary) \in ShownAmendments(currentBill, SpeakerContextChars)
        /\ pc = "vote" =>
              Len(currentBill.summary) \in ShownAmendments(currentBill, VoterContextChars)

\* C36: in every round recorded by runSimulationClient the counters agree
\* with the roll call: yes, no and abstain are the numbers of roll-call
\* entries with that value, with inference on or off.
C36_CountersMatchRollCall ==
    IsClient =>
        \A i \in 1..Len(allRounds) :
            LET v == allRounds[i].vote
            IN  /\ v.yes = CountVotes(v.rollCall, "yes")
                /\ v.no = CountVotes(v.rollCall, "no")
                /\ v.abstain = CountVotes(v.rollCall, "abstain")

\* C37: in every round with inference the keys of the roll call batchVote
\* returns are exactly the ids of the sampled members, whatever the
\* inference backend replies (both batchVote variants).
C37_RollCallKeysAreMembers ==
    (IsClient /\ LlmMode) =>
        LET ids == {members[k].member_id : k \in 1..Len(members)}
        IN  /\ DOMAIN votes \subseteq ids
            /\ pc \in {"speak", "vote", "amend", "done"} =>
                  \A i \in 1..Len(allRounds) :
                      DOMAIN allRounds[i].vote.rollCall = ids

\* C38: without inference (LLM disabled or no engine loaded)
\* runSimulationClient never passes a bill: every recorded round has the
\* tally yes = no = floor(numMembers / 2), abstain = 0, passed = false and
\* an empty roll call whatever the stances, no amendment is generated, the
\* bill is unchanged, and the run that returns has recorded exactly
\* `rounds` rounds and reports final_passed = false.
C38_NoInferenceNeverPasses ==
    (IsClient /\ ~LlmMode) =>
        /\ \A i \in 1..Len(allRounds) :
              LET v == allRounds[i].vote
              IN  /\ v.yes = numMembers \div 2
                  /\ v.no = numMembers \div 2
                  /\ v.abstain = 0
                  /\ v.passed = FALSE
                  /\ v.rollCall = <<>>
                  /\ allRounds[i].amendment = None
        /\ currentBill = BaseBill
        /\ pc = "done" =>
              /\ Len(result.rounds) = rounds
              /\ result.rounds = allRounds
              /\ result.final_passed = FALSE

\* A run of three members without inference has returned after its round,
\* in which speeches of support and of opposition were given.
C38_Witness ==
    /\ IsClient
    /\ ~useLlm
    /\ pc = "done"
    /\ numMembers = 3
    /\ Len(allRounds) = 1
    /\ allRounds[1].vote.yes = 1
    /\ \E i, j \in 1..Len(allRounds[1].speeches) :
          /\ allRounds[1].speeches[i].stance = "support"
          /\ allRounds[1].speeches[j].stance = "oppose"

\* C40: the round record handed to onRoundComplete is complete at the call
\* and is not modified afterwards: the recorded round is at all times what
\* the observer was handed, the amendment of the round included.
C40_HandedRecordIsFinal ==
    IsClient =>
        \A i \in 1..Len(events) :
            events[i].kind = "round" =>
                /\ events[i].round + 1 \in 1..Len(allRounds)
                /\ allRounds[events[i].round + 1] = events[i].record

\* C39: every inference call of a run goes to an engine loaded with the
\* model of that run's llmConfig, and currentModelId names the model of
\* loadedEngine, for every interleaving of two runs started with different
\* models.
C39_CallsUseOwnModel ==
    /\ currentModelId = loadedEngine
    /\ \A i \in {1, 2} : runs[i].sentTo \subseteq {runs[i].model}

====
